---- MODULE Spec2Model ----
(***************************************************************************)
(* Executor / verifier pair of the semantic transformer.                   *)
(*                                                                         *)
(* The executor (exec.rs, run_trace_and_write) interprets a list of ops    *)
(* against a live state and emits one record per step, hash-chained.  The  *)
(* verifier (verify.rs, verify_trace_ndjson) replays the records from      *)
(* scratch and compares every field.                                       *)
(*                                                                         *)
(* Modelling conventions                                                   *)
(*   - a Rust String is a sequence of one-character strings;               *)
(*   - Option<T> is a sequence of length 0 (None) or 1 (Some);             *)
(*   - SHA-256 is a free (injective) constructor over its preimage;        *)
(*   - the universes are built by the code's own rules inside smaller      *)
(*     boxes (QNumMax, QDenMax, TriMaxSide); the predicate thresholds of   *)
(*     the signatures keep the code's values.                              *)
(***************************************************************************)
EXTENDS Integers, Sequences, FiniteSets, TLC

(***************************************************************************)
(* Bounds of the model.                                                    *)
(***************************************************************************)
\* numerators of the rational box are -QNumMax..QNumMax (200 in qe.rs)
QNumMax == 6
\* denominators of the rational box are 1..QDenMax (200 in qe.rs)
QDenMax == 7
\* sides of the triangle universe are 1..TriMaxSide (build_ge(20) in exec.rs)
TriMaxSide == 7
\* longest op list drawn freely from the op alphabet
MaxOps == 3

(***************************************************************************)
(* Generic helpers.                                                        *)
(***************************************************************************)
None == <<>>

Some(x) == <<x>>

Abs(x) == IF x < 0 THEN -x ELSE x

Min(a, b) == IF a < b THEN a ELSE b

Range(s) == { s[k] : k \in 1..Len(s) }

(***************************************************************************)
(* digest.rs                                                               *)
(***************************************************************************)
\* SHA-256 as an injective constructor over the preimage
\* (preimages are records, one shape per kind of byte string hashed)
sha256_bytes(data) == [sha256 |-> data]

\* b""
EmptyBytes == [len |-> 0]

\* the 64-byte buffer left || right
Concat64(left, right) == [left |-> left, right |-> right]

\* one pass of the inner while loop of merkle_root: pair adjacent nodes,
\* an odd last node is paired with itself
\* one level of the tree with an odd last node carried up as it is
MerkleLevel_promote(level) ==
  [ k \in 1..((Len(level) + 1) \div 2) |->
      IF 2 * k <= Len(level)
      THEN sha256_bytes(Concat64(level[2 * k - 1], level[2 * k]))
      ELSE level[2 * k - 1] ]

MerkleLevel(level) ==
  [ k \in 1..((Len(level) + 1) \div 2) |->
      sha256_bytes(Concat64(level[2 * k - 1],
                            IF 2 * k <= Len(level) THEN level[2 * k]
                            ELSE level[2 * k - 1])) ]

RECURSIVE MerkleReduce(_)
MerkleReduce(level) ==
  IF Len(level) > 1 THEN MerkleReduce(MerkleLevel(level)) ELSE level[1]

merkle_root(leaves) ==
  IF Len(leaves) = 0 THEN sha256_bytes(EmptyBytes) ELSE MerkleReduce(leaves)

\* hex::encode of a 32-byte digest: a String, injective in the digest
hex32(b) == [hex |-> b]

(***************************************************************************)
(* Strings: integer formatting and parsing.                                *)
(***************************************************************************)
Digits == <<"0", "1", "2", "3", "4", "5", "6", "7", "8", "9">>

IsDigit(c) == \E d \in 1..10 : Digits[d] = c

DigitVal(c) == (CHOOSE d \in 1..10 : Digits[d] = c) - 1

RECURSIVE NatToStr(_)
NatToStr(n) ==
  IF n < 10 THEN << Digits[n + 1] >>
  ELSE NatToStr(n \div 10) \o << Digits[(n % 10) + 1] >>

\* format!("{}", i32)
IntToStr(n) == IF n < 0 THEN <<"-">> \o NatToStr(-n) ELSE NatToStr(n)

RECURSIVE DigitsToInt(_, _, _)
\* the value of a digit string, accumulated with its sign
DigitsToInt(s, sign, acc) ==
  IF s = <<>> THEN acc
  ELSE DigitsToInt(Tail(s), sign, acc * 10 + sign * DigitVal(Head(s)))

AllDigits(s) == Len(s) > 0 /\ \A k \in 1..Len(s) : IsDigit(s[k])

RECURSIVE StripZeros(_)
StripZeros(s) ==
  IF Len(s) > 1 /\ Head(s) = "0" THEN StripZeros(Tail(s)) ELSE s

RECURSIVE LexLeq(_, _)
\* digit strings of equal length: s <= t
LexLeq(s, t) ==
  IF s = <<>> THEN TRUE
  ELSE IF DigitVal(Head(s)) # DigitVal(Head(t))
       THEN DigitVal(Head(s)) < DigitVal(Head(t))
       ELSE LexLeq(Tail(s), Tail(t))

\* the number written by the digit string s is at most the one written by
\* limit (compared as text: the values may exceed TLC's integers)
DecLeq(s, limit) ==
  LET z == StripZeros(s)
  IN Len(z) < Len(limit) \/ (Len(z) = Len(limit) /\ LexLeq(z, limit))

I32MaxDigits == <<"2","1","4","7","4","8","3","6","4","7">>

I32MinDigits == <<"2","1","4","7","4","8","3","6","4","8">>

U64MaxDigits == <<"1","8","4","4","6","7","4","4","0","7",
                  "3","7","0","9","5","5","1","6","1","5">>

\* str::parse::<i32>: optional sign, at least one digit, range checked
ParseI32(s) ==
  IF s # <<>> /\ Head(s) = "-"
  THEN IF AllDigits(Tail(s)) /\ DecLeq(Tail(s), I32MinDigits)
       THEN Some(DigitsToInt(Tail(s), -1, 0)) ELSE None
  ELSE LET d == IF s # <<>> /\ Head(s) = "+" THEN Tail(s) ELSE s
       IN IF AllDigits(d) /\ DecLeq(d, I32MaxDigits)
          THEN Some(DigitsToInt(d, 1, 0)) ELSE None

IsSpace(c) == c = " "

RECURSIVE TrimStart(_)
TrimStart(s) ==
  IF s # <<>> /\ IsSpace(Head(s)) THEN TrimStart(Tail(s)) ELSE s

RECURSIVE TrimEnd(_)
TrimEnd(s) ==
  IF s # <<>> /\ IsSpace(s[Len(s)]) THEN TrimEnd(SubSeq(s, 1, Len(s) - 1)) ELSE s

\* str::trim
Trim(s) == TrimEnd(TrimStart(s))

RECURSIVE SplitAcc(_, _, _)
SplitAcc(s, sep, cur) ==
  IF s = <<>> THEN << cur >>
  ELSE IF Head(s) = sep THEN << cur >> \o SplitAcc(Tail(s), sep, <<>>)
       ELSE SplitAcc(Tail(s), sep, Append(cur, Head(s)))

\* str::split(char): the pieces between separators, empty pieces kept
Split(s, sep) == SplitAcc(s, sep, <<>>)

Contains(s, c) == \E k \in 1..Len(s) : s[k] = c

(***************************************************************************)
(* qe.rs: reduced rationals.                                               *)
(***************************************************************************)
\* std::cmp::Ordering
Less == -1

Equal == 0

Greater == 1

\* Ord::cmp on integers
CmpInt(a, b) == IF a < b THEN Less ELSE IF a = b THEN Equal ELSE Greater

IsSortedBy(s, cmp(_, _)) ==
  \A k \in 1..(Len(s) - 1) : cmp(s[k], s[k + 1]) # Greater

\* slice::sort_by(cmp): the stable sort of s.  Element i goes to the
\* position counting the elements that come before it (the strictly
\* smaller ones, and the equal ones to its left); a sorted input is
\* returned as it is.  (SubSeq makes the rank table an evaluated tuple.)
SortBy(s, cmp(_, _)) ==
  IF IsSortedBy(s, cmp) THEN s
  ELSE LET n == Len(s)
           rank == SubSeq([ i \in 1..n |->
                     Cardinality({ j \in 1..n :
                        \/ cmp(s[j], s[i]) = Less
                        \/ (cmp(s[j], s[i]) = Equal /\ j < i) }) + 1 ], 1, n)
       IN [ p \in 1..n |-> s[CHOOSE i \in 1..n : rank[i] = p] ]

\* a set of pairwise distinct elements listed in the order of a total cmp
SortSet(S, cmp(_, _)) ==
  LET n == Cardinality(S)
  IN [ p \in 1..n |->
       CHOOSE x \in S : Cardinality({ y \in S : cmp(y, x) = Less }) = p - 1 ]

RECURSIVE GcdLoop(_, _)
GcdLoop(a, b) == IF b # 0 THEN GcdLoop(b, a % b) ELSE a

\* qe.rs gcd: Euclid on absolute values, gcd(0, 0) = 1
gcd(a, b) == LET g == GcdLoop(Abs(a), Abs(b)) IN IF g = 0 THEN 1 ELSE g

Frac(n, d) == [num |-> n, den |-> d]

\* new_reduced without the division by the gcd: the sign is normalised only
new_reduced_no_gcd(num, den) ==
  IF den < 0 THEN Frac(-num, -den) ELSE Frac(num, den)

\* Frac::new_reduced (den # 0 is asserted by the caller)
new_reduced(num, den) ==
  LET n == IF den < 0 THEN -num ELSE num
      d == IF den < 0 THEN -den ELSE den
      g == gcd(n, d)
  IN Frac(n \div g, d \div g)

\* Frac::canonical_bytes: num then den, each a big-endian i32
frac_canonical_bytes(f) == [num |-> f.num, den |-> f.den]

\* Frac::cmp_value: (a*d).cmp(c*b)
cmp_value(x, y) == CmpInt(x.num * y.den, y.num * x.den)

\* an order on |numerator| and denominator alone
canonical_cmp_by_abs(a, b) ==
  LET o2 == CmpInt(Abs(a.num), Abs(b.num))
      o3 == CmpInt(a.den, b.den)
  IN IF o2 # Equal THEN o2 ELSE o3

\* qe::canonical_cmp
canonical_cmp(a, b) ==
  LET o1 == cmp_value(a, b)
      o2 == CmpInt(Abs(a.num), Abs(b.num))
      o3 == CmpInt(a.den, b.den)
  IN IF o1 # Equal THEN o1
     ELSE IF o2 # Equal THEN o2
     ELSE IF o3 # Equal THEN o3
     ELSE CmpInt(a.num, b.num)

\* slice::sort_by(qe::canonical_cmp)
SortFrac(s) == SortBy(s, canonical_cmp)

\* build_qe: reduce every (num, den) of the box, deduplicate, sort
\* (canonical_cmp is total on distinct (num, den), so the sorted list does
\* not depend on the order the BTreeSet is read in)
build_qe ==
  SortSet({ new_reduced(num, den) :
              num \in (-QNumMax)..QNumMax, den \in 1..QDenMax },
          canonical_cmp)

\* parse_frac: "a/b" -> reduced Frac, None on any malformed input
parse_frac(s) ==
  LET parts == Split(Trim(s), "/")
  IN IF Len(parts) # 2 THEN None
     ELSE LET num == ParseI32(parts[1])
              den == ParseI32(parts[2])
          IN IF num = None \/ den = None THEN None
             ELSE IF den[1] = 0 THEN None
             ELSE Some(new_reduced(num[1], den[1]))

(***************************************************************************)
(* geom.rs: integer triangles.                                             *)
(***************************************************************************)
Tri(a, b, c) == [a |-> a, b |-> b, c |-> c]

\* Tri::new: positive sides, sorted a <= b <= c, strict triangle inequality
tri_new(a0, b0, c0) ==
  IF a0 <= 0 \/ b0 <= 0 \/ c0 <= 0 THEN None
  ELSE LET a1 == IF a0 > b0 THEN b0 ELSE a0
           b1 == IF a0 > b0 THEN a0 ELSE b0
           b2 == IF b1 > c0 THEN c0 ELSE b1
           c2 == IF b1 > c0 THEN b1 ELSE c0
           a3 == IF a1 > b2 THEN b2 ELSE a1
           b3 == IF a1 > b2 THEN a1 ELSE b2
       IN IF a3 + b3 <= c2 THEN None ELSE Some(Tri(a3, b3, c2))

perimeter(t) == t.a + t.b + t.c

is_isosceles(t) == t.a = t.b \/ t.b = t.c

is_equilateral(t) == t.a = t.b /\ t.b = t.c

\* geom.rs gcd (no abs on the way in)
geom_gcd(a, b) == LET g == GcdLoop(a, b) IN IF g = 0 THEN 1 ELSE Abs(g)

gcd3(a, b, c) == geom_gcd(geom_gcd(a, b), c)

is_primitive(t) == gcd3(t.a, t.b, t.c) = 1

\* Tri::angle_type: a^2 + b^2 compared with c^2
angle_type(t) == CmpInt(t.a * t.a + t.b * t.b, t.c * t.c)

\* geom::canonical_cmp: perimeter, then a, b, c
geom_canonical_cmp(x, y) ==
  IF perimeter(x) # perimeter(y) THEN CmpInt(perimeter(x), perimeter(y))
  ELSE IF x.a # y.a THEN CmpInt(x.a, y.a)
  ELSE IF x.b # y.b THEN CmpInt(x.b, y.b)
  ELSE CmpInt(x.c, y.c)

\* slice::sort_by(geom::canonical_cmp)
SortTri(s) == SortBy(s, geom_canonical_cmp)

\* build_ge: every a <= b <= c <= max_side that Tri::new accepts, sorted
\* (each triangle is pushed once, and geom::canonical_cmp is total)
build_ge(max_side) ==
  SortSet({ Tri(a, b, c) : a \in 1..max_side, b \in 1..max_side, c \in 1..max_side }
            \cap { t \in [a : 1..max_side, b : 1..max_side, c : 1..max_side] :
                     t.a <= t.b /\ t.b <= t.c /\ tri_new(t.a, t.b, t.c) # None },
          geom_canonical_cmp)

\* the projection of a triangle the executor stores: Frac { num: a, den: c }
tri_project(t) == Frac(t.a, t.c)

MapProject(tris) == [ k \in 1..Len(tris) |-> tri_project(tris[k]) ]

(***************************************************************************)
(* boolfun.rs: Boolean functions as packed truth tables.                   *)
(***************************************************************************)
BoolFun(n, bits) == [n |-> n, bits |-> bits]

\* BoolFun::rows
rows(f) == 2 ^ f.n

RECURSIVE PopCount(_)
PopCount(x) == IF x = 0 THEN 0 ELSE (x % 2) + PopCount(x \div 2)

RECURSIVE XorNat(_, _)
XorNat(x, y) ==
  IF x = 0 /\ y = 0 THEN 0
  ELSE ((x + y) % 2) + 2 * XorNat(x \div 2, y \div 2)

RECURSIVE AndNat(_, _)
AndNat(x, y) ==
  IF x = 0 \/ y = 0 THEN 0
  ELSE ((x % 2) * (y % 2)) + 2 * AndNat(x \div 2, y \div 2)

\* BoolFun::mask as a modulus: x & mask() = x % 2^rows
LiveBits(f, x) == x % (2 ^ rows(f))

\* BoolFun::canonical_bytes: n, then the table big-endian
boolfun_canonical_bytes(f) == [n |-> f.n, bits |-> f.bits]

\* BoolFun::weight
weight(f) == PopCount(LiveBits(f, f.bits))

\* the sentinel hamming returns for different arities: u32::MAX in the code,
\* here TLC's largest integer; every real distance is at most 64
HammingIncomparable == 2147483647

\* BoolFun::hamming
hamming(f, other) ==
  IF f.n # other.n THEN HammingIncomparable
  ELSE PopCount(LiveBits(f, XorNat(f.bits, other.bits)))

\* boolfun::canonical_cmp: n, then bits
boolfun_canonical_cmp(a, b) ==
  IF a.n # b.n THEN CmpInt(a.n, b.n) ELSE CmpInt(a.bits, b.bits)

\* slice::sort_by(boolfun::canonical_cmp)
SortBoolFun(s) == SortBy(s, boolfun_canonical_cmp)

\* build_boolfun: one element per table 0..2^(2^n)-1, sorted
build_boolfun(n) ==
  SortBoolFun([ k \in 1..(2 ^ (2 ^ n)) |-> BoolFun(n, k - 1) ])

(***************************************************************************)
(* semtrace.rs: predicate signatures and the constraint.                   *)
(***************************************************************************)
BitIf(p, i) == IF p THEN 2 ^ i ELSE 0

\* i32 % 2 == 0 (Rust remainder keeps the sign of the dividend)
IsEven(n) == Abs(n) % 2 = 0

\* sig7: the seven rational predicates, bit i set when predicate i holds
sig7(f) ==
    BitIf(f.num > 0, 0)
  + BitIf(TRUE, 1)
  + BitIf(f.den <= 6, 2)
  + BitIf(IsEven(f.num), 3)
  + BitIf(f.den % 3 = 0, 4)
  + BitIf(Abs(f.num) < f.den, 5)
  + BitIf(Abs(f.num) <= 5, 6)

\* sig7_geom: the seven triangle predicates
sig7_geom(t) ==
    BitIf(perimeter(t) <= 20, 0)
  + BitIf(is_isosceles(t), 1)
  + BitIf(is_equilateral(t), 2)
  + BitIf(is_primitive(t), 3)
  + BitIf(angle_type(t) = Equal, 4)
  + BitIf(angle_type(t) = Greater, 5)
  + BitIf(angle_type(t) = Less, 6)

\* bit i of the u8 x
BitOf(x, i) == (x \div (2 ^ i)) % 2

\* u8 bitwise and
And8(x, y) == AndNat(x, y)

\* Constraint::empty
constraint_empty == [mask |-> 0, value |-> 0]

\* 1u8 << i overflows for i >= 8: a panic in a build with overflow checks,
\* the shift by i mod 8 in a build without them
shl_overflows(i) == i >= 8

\* 1u8 << i where it does not panic
Shl1(i) == 2 ^ (i % 8)

\* set_bit that assigns the mask instead of or-ing the bit into it
set_bit_assign_mask(c, i, b) ==
  [mask |-> Shl1(i), value |-> IF b = 1 THEN c.value + Shl1(i) ELSE c.value]

\* Constraint::set_bit: mask |= bit; value gets bit when b == 1, loses it
\* otherwise
set_bit(c, i, b) ==
  LET bit == Shl1(i)
      mask == IF And8(c.mask, bit) = bit THEN c.mask ELSE c.mask + bit
      dropped == IF And8(c.value, bit) = bit THEN c.value - bit ELSE c.value
  IN [mask |-> mask, value |-> IF b = 1 THEN dropped + bit ELSE dropped]

\* Constraint::matches
matches(c, sig) == And8(sig, c.mask) = And8(c.value, c.mask)


(***************************************************************************)
(* Op inputs.  An element of the op list is the pair (op, args) that       *)
(* parse_op_to_semtrace returns for the line; args is a record with the    *)
(* fields of that op.  A JSON number that is not a u64 is a negative       *)
(* integer here.                                                           *)
(***************************************************************************)
Op(name, args) == [op |-> name, args |-> args]

SelectUniverse(u, n) == Op("SELECT_UNIVERSE", [universe |-> u, n |-> n])

FilterWeight(lo, hi) == Op("FILTER_WEIGHT", [min |-> lo, max |-> hi])

TopK(t, k) == Op("TOPK", [target_elem |-> t, k |-> k])

StartElem(e) == Op("START_ELEM", [elem |-> e])

SetBit(i, b) == Op("SET_BIT", [i |-> i, b |-> b])

WitnessNearest(t, m) == Op("WITNESS_NEAREST", [target_elem |-> t, metric |-> m])

ReturnSet(m, w) == Op("RETURN_SET", [max_items |-> m, include_witness |-> w])

\* serde_json Value::as_u64
as_u64(v) == IF v >= 0 THEN Some(v) ELSE None

Lower == <<"a","b","c","d","e","f","g","h","i","j","k","l","m",
           "n","o","p","q","r","s","t","u","v","w","x","y","z">>

Upper == <<"A","B","C","D","E","F","G","H","I","J","K","L","M",
           "N","O","P","Q","R","S","T","U","V","W","X","Y","Z">>

UpperChar(c) ==
  IF \E k \in 1..26 : Lower[k] = c
  THEN Upper[CHOOSE k \in 1..26 : Lower[k] = c] ELSE c

\* str::to_ascii_uppercase
to_ascii_uppercase(s) == [ k \in 1..Len(s) |-> UpperChar(s[k]) ]

\* the spellings SELECT_UNIVERSE accepts for the Boolean universe
BoolFunNames ==
  { <<"B","O","O","L","F","U","N">>,
    <<"B","O","O","L","F","U","N","<","N",">">>,
    <<"B","O","O","L","F","U","N","4">>,
    <<"B","O","O","L","F","U","N","_","4">>,
    <<"B","O","O","L","F","U","N","V","0">>,
    <<"B","O","O","L","F","U","N","V","1">>,
    <<"B","O","O","L","F","U","N","S">>,
    <<"B","O","O","L","F","U","N","S","<","N",">">>,
    <<"B","O","O","L","F","U","N","S","4">>,
    <<"B","O","O","L","F","U","N","S","_","4">>,
    <<"B","O","O","L","F","U","N","S","_","V","0">>,
    <<"B","O","O","L","F","U","N","S","_","V","1">> }

\* parse of "a,b,c": split on ',', trim, drop empty parts, three i32
TriParts(s) ==
  SelectSeq([ k \in 1..Len(Split(s, ",")) |-> Trim(Split(s, ",")[k]) ],
            LAMBDA part : part # <<>>)

(***************************************************************************)
(* Rendering of witnesses (exec.rs).                                       *)
(***************************************************************************)
\* frac_to_string: format!("{}/{}", num, den)
frac_to_string(f) == IntToStr(f.num) \o <<"/">> \o IntToStr(f.den)

HexDigits == <<"0","1","2","3","4","5","6","7","8","9","A","B","C","D","E","F">>

\* format!("{:04X}", u16)
Hex04(x) ==
  << HexDigits[((x \div 4096) % 16) + 1], HexDigits[((x \div 256) % 16) + 1],
     HexDigits[((x \div 16) % 16) + 1], HexDigits[(x % 16) + 1] >>

\* boolfun_to_string: "0xHHHH" for n = 4, "u64:D" otherwise
boolfun_to_string(f) ==
  IF f.n = 4 THEN <<"0", "x">> \o Hex04(f.bits % 65536)
  ELSE <<"u", "6", "4", ":">> \o NatToStr(f.bits)

\* Option::map over the one-element encoding
MapFracStr(w) == IF w = None THEN None ELSE Some(frac_to_string(w[1]))

MapBoolFunStr(w) == IF w = None THEN None ELSE Some(boolfun_to_string(w[1]))

(***************************************************************************)
(* boolfun.rs parse_elem.                                                  *)
(***************************************************************************)
HexVal(c) ==
  IF IsDigit(c) THEN DigitVal(c)
  ELSE IF c \in {"A", "a"} THEN 10 ELSE IF c \in {"B", "b"} THEN 11
  ELSE IF c \in {"C", "c"} THEN 12 ELSE IF c \in {"D", "d"} THEN 13
  ELSE IF c \in {"E", "e"} THEN 14 ELSE 15

IsHexDigit(c) ==
  IsDigit(c) \/ c \in {"A","B","C","D","E","F","a","b","c","d","e","f"}

RECURSIVE RadixMod(_, _, _, _)
\* the value of a digit string in the given radix, modulo m
RadixMod(s, radix, m, acc) ==
  IF s = <<>> THEN acc
  ELSE RadixMod(Tail(s), radix, m, (acc * radix + HexVal(Head(s))) % m)

StartsWith(s, pre) == Len(s) >= Len(pre) /\ SubSeq(s, 1, Len(pre)) = pre

StripPrefix(s, pre) == SubSeq(s, Len(pre) + 1, Len(s))

IsPowerOfTwo(n) == \E k \in 0..6 : n = 2 ^ k

Log2(n) == CHOOSE k \in 0..6 : n = 2 ^ k

\* u64::from_str_radix(s, 16) followed by & 0xFFFF
ParseHexLow16(s) ==
  LET d == IF s # <<>> /\ Head(s) = "+" THEN Tail(s) ELSE s
  IN IF d # <<>> /\ (\A k \in 1..Len(d) : IsHexDigit(d[k]))
        /\ Len(StripZeros(d)) <= 16
     THEN Some(RadixMod(d, 16, 65536, 0)) ELSE None

\* str::parse::<u64> followed by & 0xFFFF
ParseDecLow16(s) ==
  LET d == IF s # <<>> /\ Head(s) = "+" THEN Tail(s) ELSE s
  IN IF AllDigits(d) /\ DecLeq(d, U64MaxDigits)
     THEN Some(RadixMod(d, 10, 65536, 0)) ELSE None

\* parse_elem that cuts a "bin:" text of a wrong length down to its last
\* 2^n characters instead of refusing it
parse_elem_truncating(s) ==
  LET t == Trim(s)
      b == Trim(StripPrefix(t, <<"b", "i", "n", ":">>))
      n == CHOOSE k \in 0..6 : 2 ^ k <= Len(b) /\ (k = 6 \/ Len(b) < 2 ^ (k + 1))
  IN IF StartsWith(t, <<"b", "i", "n", ":">>) /\ b # <<>> /\ (\A k \in 1..Len(b) : b[k] \in {"0", "1"})
     THEN Some(BoolFun(n, RadixMod(SubSeq(b, Len(b) - 2 ^ n + 1, Len(b)), 2,
                                   2 ^ Min(2 ^ n, 30), 0)))
     ELSE IF StartsWith(t, <<"0", "x">>)
     THEN LET bits == ParseHexLow16(Trim(StripPrefix(t, <<"0", "x">>)))
          IN IF bits = None THEN None ELSE Some(BoolFun(4, bits[1]))
     ELSE IF StartsWith(t, <<"u", "1", "6", ":">>)
     THEN LET bits == ParseDecLow16(Trim(StripPrefix(t, <<"u", "1", "6", ":">>)))
          IN IF bits = None THEN None ELSE Some(BoolFun(4, bits[1]))
     ELSE None

\* parse_elem: "0xH..", "u16:D" (both n = 4, low 16 bits kept) or "bin:s"
\* (s of length 2^n <= 64, read most significant bit first)
parse_elem(s) ==
  LET t == Trim(s)
  IN IF StartsWith(t, <<"0", "x">>) \/ StartsWith(t, <<"0", "X">>)
     THEN LET bits == ParseHexLow16(Trim(StripPrefix(t, <<"0", "x">>)))
          IN IF bits = None THEN None ELSE Some(BoolFun(4, bits[1]))
     ELSE IF StartsWith(t, <<"u", "1", "6", ":">>)
     THEN LET bits == ParseDecLow16(Trim(StripPrefix(t, <<"u", "1", "6", ":">>)))
          IN IF bits = None THEN None ELSE Some(BoolFun(4, bits[1]))
     ELSE IF StartsWith(t, <<"b", "i", "n", ":">>)
     THEN LET b == Trim(StripPrefix(t, <<"b", "i", "n", ":">>))
          IN IF b = <<>> THEN None
             ELSE IF ~(\A k \in 1..Len(b) : b[k] \in {"0", "1"}) THEN None
             ELSE IF ~IsPowerOfTwo(Len(b)) THEN None
             ELSE IF Len(b) > 64 THEN None
             \* tables of 32 and 64 rows are kept modulo 2^30 (TLC's integers
             \* are 32 bits wide): exact for tables of up to 16 rows
             ELSE Some(BoolFun(Log2(Len(b)),
                               RadixMod(b, 2, 2 ^ Min(Len(b), 30), 0)))
     ELSE None

(***************************************************************************)
(* exec.rs: the line-oriented op parser.                                   *)
(***************************************************************************)
\* str::split_whitespace: the non-empty pieces between spaces
split_whitespace(s) == SelectSeq(Split(s, " "), LAMBDA piece : piece # <<>>)

RECURSIVE trim_start_matches(_, _)
\* str::trim_start_matches(pre): pre removed from the front as often as it
\* is there
trim_start_matches(s, pre) ==
  IF StartsWith(s, pre) THEN trim_start_matches(StripPrefix(s, pre), pre) ELSE s

\* str::parse::<u64>: the digits of the number (its value may exceed TLC's
\* integers), None when the text is not a u64
ParseU64(s) ==
  LET d == IF s # <<>> /\ Head(s) = "+" THEN Tail(s) ELSE s
  IN IF AllDigits(d) /\ DecLeq(d, U64MaxDigits) THEN Some(d) ELSE None

\* `as u8` of a parsed u64
AsU8(d) == RadixMod(d, 10, 256, 0)

\* a parsed u64 as a JSON number (`as u32`, `as usize`): exact below 2^30,
\* larger values are kept modulo 2^30
AsNum(d) == RadixMod(d, 10, 2 ^ 30, 0)

\* parse_kv_u64(tok, key): the number written after "key="
parse_kv_u64(tok, key) ==
  IF ~StartsWith(tok, key \o <<"=">>) THEN None
  ELSE ParseU64(StripPrefix(tok, key \o <<"=">>))

\* parse_kv_bool(tok, key)
parse_kv_bool(tok, key) ==
  IF ~StartsWith(tok, key \o <<"=">>) THEN None
  ELSE LET v == StripPrefix(tok, key \o <<"=">>)
       IN IF v \in { <<"1">>, <<"t", "r", "u", "e">>, <<"T", "R", "U", "E">>, <<"T", "r", "u", "e">> } THEN Some(TRUE)
          ELSE IF v \in { <<"0">>, <<"f", "a", "l", "s", "e">>, <<"F", "A", "L", "S", "E">>, <<"F", "a", "l", "s", "e">> } THEN Some(FALSE)
          ELSE None

\* the loop `for t in toks.iter().skip(1) { if x.is_none() { x = f(t) } }`:
\* f of the first token after the head for which f is not None
FirstKv(toks, key) ==
  LET hits == { j \in 2..Len(toks) : parse_kv_u64(toks[j], key) # None }
  IN IF hits = {} THEN None
     ELSE parse_kv_u64(toks[CHOOSE j \in hits : \A h \in hits : j <= h], key)

\* the same loop for a text value under one of the given prefixes
FirstText(toks, prefixes) ==
  LET hits == { j \in 2..Len(toks) : \E pre \in prefixes : StartsWith(toks[j], pre) }
      j0 == CHOOSE j \in hits : \A h \in hits : j <= h
  IN IF hits = {} THEN None
     ELSE Some(trim_start_matches(toks[j0],
                 CHOOSE pre \in prefixes : StartsWith(toks[j0], pre)))

\* the loop `for t in .. { if let Some(v) = f(t) { x = v } }`: f of the last
\* token for which f is not None
LastKv(toks, key) ==
  LET hits == { j \in 2..Len(toks) : parse_kv_u64(toks[j], key) # None }
  IN IF hits = {} THEN None
     ELSE parse_kv_u64(toks[CHOOSE j \in hits : \A h \in hits : j >= h], key)

LastBool(toks, key) ==
  LET hits == { j \in 2..Len(toks) : parse_kv_bool(toks[j], key) # None }
  IN IF hits = {} THEN None
     ELSE parse_kv_bool(toks[CHOOSE j \in hits : \A h \in hits : j >= h], key)

\* the universe of a SELECT_UNIVERSE line: the token after the head when it
\* has no '=', else the first universe=.. token
SelectUniverseName(toks) ==
  IF Len(toks) >= 2 /\ ~Contains(toks[2], "=") THEN Some(toks[2])
  ELSE FirstText(toks, { <<"u", "n", "i", "v", "e", "r", "s", "e", "=">> })

\* the metric of a WITNESS_NEAREST record: op records hold it as one string
\* (every name but ABS_DIFF is refused by the executor and the verifier)
MetricName(text) ==
  IF text = <<"A", "B", "S", "_", "D", "I", "F", "F">> THEN "ABS_DIFF"
  ELSE IF text = <<"L", "2">> THEN "L2" ELSE "?"

\* parse_op_to_semtrace: Some(the (op, args) pair) for Ok, None for Err
parse_op_to_semtrace(op) ==
  LET s == Trim(op)
      toks == split_whitespace(s)
  IN IF StartsWith(s, <<"L", "O", "A", "D", " ">>)
     THEN LET elem == Trim(StripPrefix(s, <<"L", "O", "A", "D", " ">>))
          IN IF elem = <<>> THEN None ELSE Some(StartElem(elem))
     ELSE IF StartsWith(s, <<"M", "A", "S", "K", "_", "B", "I", "T">>)
     THEN LET bit == FirstKv(toks, <<"b", "i", "t">>)
              val == FirstKv(toks, <<"v", "a", "l">>)
          IN IF bit = None \/ val = None THEN None
             ELSE Some(SetBit(AsU8(bit[1]), AsU8(val[1])))
     ELSE IF StartsWith(s, <<"S", "E", "L", "E", "C", "T", "_", "U", "N", "I", "V", "E", "R", "S", "E">>)
     THEN LET universe == SelectUniverseName(toks)
              n == FirstKv(toks, <<"n">>)
          IN IF universe = None \/ n = None THEN None
             ELSE Some(SelectUniverse(universe[1], AsU8(n[1])))
     ELSE IF StartsWith(s, <<"F", "I", "L", "T", "E", "R", "_", "W", "E", "I", "G", "H", "T">>)
     THEN LET min == FirstKv(toks, <<"m", "i", "n">>)
              max == FirstKv(toks, <<"m", "a", "x">>)
          IN IF min = None \/ max = None THEN None
             ELSE Some(FilterWeight(AsNum(min[1]), AsNum(max[1])))
     ELSE IF StartsWith(s, <<"T", "O", "P", "K">>)
     THEN LET target == FirstText(toks, { <<"t", "a", "r", "g", "e", "t", "=">>, <<"t", "a", "r", "g", "e", "t", "_", "e", "l", "e", "m", "=">> })
              k == FirstKv(toks, <<"k">>)
          IN IF target = None \/ k = None THEN None
             ELSE Some(TopK(target[1], AsNum(k[1])))
     ELSE IF StartsWith(s, <<"W", "I", "T", "N", "E", "S", "S", "_", "N", "E", "A", "R", "E", "S", "T">>)
     THEN LET target == FirstText(toks, { <<"t", "a", "r", "g", "e", "t", "=">>, <<"t", "a", "r", "g", "e", "t", "_", "e", "l", "e", "m", "=">> })
              metric == FirstText(toks, { <<"m", "e", "t", "r", "i", "c", "=">> })
          IN IF target = None THEN None
             ELSE Some(WitnessNearest(target[1],
                         IF metric = None THEN "ABS_DIFF" ELSE MetricName(metric[1])))
     ELSE IF StartsWith(s, <<"R", "E", "T", "U", "R", "N", "_", "S", "E", "T">>)
     THEN LET max_items == LastKv(toks, <<"m", "a", "x", "_", "i", "t", "e", "m", "s">>)
              include_witness == LastBool(toks, <<"i", "n", "c", "l", "u", "d", "e", "_", "w", "i", "t", "n", "e", "s", "s">>)
          IN Some(ReturnSet(IF max_items = None THEN 20 ELSE AsNum(max_items[1]),
                            IF include_witness = None THEN FALSE
                            ELSE include_witness[1]))
     ELSE None

(***************************************************************************)
(* exec.rs helpers.                                                        *)
(***************************************************************************)
\* exec.rs canonical_set_digest: Merkle root of the per-element leaf hashes
canonical_set_digest(set) ==
  merkle_root([ k \in 1..Len(set) |-> sha256_bytes(frac_canonical_bytes(set[k])) ])

\* exec.rs canonical_set_digest_boolfun
canonical_set_digest_boolfun(set) ==
  merkle_root([ k \in 1..Len(set) |-> sha256_bytes(boolfun_canonical_bytes(set[k])) ])

\* step_digest without the chaining: pre is always the seed
step_digest_unchained(pre_chain, op, args, post_set) ==
  sha256_bytes([pre |-> hex32(sha256_bytes(EmptyBytes)), op |-> op,
                args |-> args, post |-> hex32(post_set)])

\* step_digest that leaves the args out of the hashed object
step_digest_no_args(pre_chain, op, args, post_set) ==
  sha256_bytes([pre |-> hex32(pre_chain), op |-> op, args |-> <<>>,
                post |-> hex32(post_set)])

\* exec.rs step_digest: hash of the JSON object {pre, op, args, post}
step_digest(pre_chain, op, args, post_set) ==
  sha256_bytes([pre |-> hex32(pre_chain), op |-> op, args |-> args,
                post |-> hex32(post_set)])

\* exec.rs distance_num_den: (|a*d - b*c|, b*d)
distance_num_den(target, cand) ==
  << Abs(target.num * cand.den - target.den * cand.num),
     target.den * cand.den >>

\* dist_lt with the comparison turned round
dist_lt_flipped(x, y) == x[1] * y[2] > y[1] * x[2]

\* exec.rs dist_lt: x.0 * y.1 < y.0 * x.1
dist_lt(x, y) == x[1] * y[2] < y[1] * x[2]

\* tuple order on (|num|, den)
AbsDenLt(f, g) ==
  Abs(f.num) < Abs(g.num) \/ (Abs(f.num) = Abs(g.num) /\ f.den < g.den)

\* the `better` test of the scan in witness_nearest
better(f, best, target) ==
  LET d == distance_num_den(target, f)
      best_d == distance_num_den(target, best)
  IN \/ dist_lt(d, best_d)
     \/ (d = best_d /\ AbsDenLt(f, best))
     \/ (d = best_d /\ Abs(f.num) = Abs(best.num) /\ f.den = best.den
         /\ canonical_cmp(f, best) = Less)

RECURSIVE NearestScan(_, _, _, _, _)
\* the scan of witness_nearest over set[lo..hi], left to right, starting
\* from the best element so far.  The range is split in two and the left
\* half is evaluated (by the comparison with best) before the right half is
\* entered, so that the evaluation does not nest once per element.
NearestScan(set, lo, hi, best, target) ==
  IF lo > hi THEN best
  ELSE IF lo = hi
  THEN IF better(set[lo], best, target) THEN set[lo] ELSE best
  ELSE LET mid == (lo + hi) \div 2
           left == NearestScan(set, lo, mid, best, target)
       IN IF left = best
          THEN NearestScan(set, mid + 1, hi, best, target)
          ELSE NearestScan(set, mid + 1, hi, left, target)

\* exec.rs witness_nearest: linear scan keeping the best element so far
witness_nearest(set, target) ==
  IF set = <<>> THEN None
  ELSE Some(NearestScan(set, 2, Len(set), set[1], target))

\* exec.rs filter_qe: keep the matching elements, then sort
filter_qe(qe, cst) ==
  SortFrac(SelectSeq(qe, LAMBDA f : matches(cst, sig7(f))))

\* the triangle branch of SET_BIT without the filter: sort, project, sort
filter_ge_unfiltered(ge, cst) ==
  SortFrac(MapProject(SortTri(ge)))

\* the triangle branch of SET_BIT: filter, sort, project, sort
filter_ge(ge, cst) ==
  SortFrac(MapProject(SortTri(SelectSeq(ge, LAMBDA t : matches(cst, sig7_geom(t))))))

\* the triangle branch of START_ELEM: the whole universe projected
project_ge(ge) == SortFrac(MapProject(SortTri(ge)))

\* parse of a triangle element "a,b,c" as START_ELEM does it: the projected
\* Frac { num: a, den: c } of the sides as written, None on any failure
parse_tri_elem(s) ==
  LET parts == TriParts(s)
  IN IF Len(parts) # 3 THEN None
     ELSE LET a == ParseI32(parts[1])
              b == ParseI32(parts[2])
              c == ParseI32(parts[3])
          IN IF a = None \/ b = None \/ c = None THEN None
             ELSE IF tri_new(a[1], b[1], c[1]) = None THEN None
             ELSE Some(Frac(a[1], c[1]))

\* the ordering of the scored list of TOPK: distance, then canonical order
ScoredCmp(x, y) ==
  IF x[1] # y[1] THEN CmpInt(x[1], y[1]) ELSE boolfun_canonical_cmp(x[2], y[2])

\* TOPK that takes the first candidate in canonical order
topk_witness_first(set, target, k) ==
  IF set = <<>> \/ k = 0 THEN None ELSE Some(set[1])

\* TOPK: score, sort, take k, first of the list (None when the list is empty)
topk_witness(set, target, k) ==
  LET scored == SortBy([ j \in 1..Len(set) |-> << hamming(set[j], target), set[j] >> ],
                       ScoredCmp)
      take == Min(k, Len(scored))
      top == SubSeq(scored, 1, take)
  IN IF top = <<>> THEN None ELSE Some(top[1][2])

\* FILTER_WEIGHT without the upper bound
filter_weight_no_max(all, lo, hi) ==
  SortBoolFun(SelectSeq(all, LAMBDA f : weight(f) >= lo))

\* FILTER_WEIGHT: the functions of the whole universe with min <= w <= max
filter_weight(all, lo, hi) ==
  SortBoolFun(SelectSeq(all, LAMBDA f : weight(f) >= lo /\ weight(f) <= hi))

\* the two universes run_trace_and_write builds on entry
qe == build_qe

ge_state == build_ge(TriMaxSide)

\* the candidate set START_ELEM builds for a triangle element
ge_projected == project_ge(ge_state)


(***************************************************************************)
(* verify.rs: the replay verifier, a function of the transcript.           *)
(***************************************************************************)
\* verify.rs canonical_set_digest
verify_canonical_set_digest(set) ==
  merkle_root([ k \in 1..Len(set) |-> sha256_bytes(frac_canonical_bytes(set[k])) ])

\* verify.rs canonical_set_digest_boolfun
verify_canonical_set_digest_boolfun(set) ==
  merkle_root([ k \in 1..Len(set) |-> sha256_bytes(boolfun_canonical_bytes(set[k])) ])

\* the verifier's step_digest without the chaining
verify_step_digest_unchained(pre, op, args, post) ==
  sha256_bytes([pre |-> hex32(sha256_bytes(EmptyBytes)), op |-> op,
                args |-> args, post |-> hex32(post)])

\* verify.rs step_digest
verify_step_digest(pre, op, args, post) ==
  sha256_bytes([pre |-> hex32(pre), op |-> op, args |-> args,
                post |-> hex32(post)])

\* verify.rs filter_qe
verify_filter_qe(universe, c) ==
  SortFrac(SelectSeq(universe, LAMBDA f : matches(c, sig7(f))))

\* verify.rs witness_nearest (same scan as the executor's)
verify_witness_nearest(set, target) ==
  IF set = <<>> THEN None
  ELSE Some(NearestScan(set, 2, Len(set), set[1], target))

\* the locals of verify_trace_ndjson before the first record
VerifierInit ==
  [ is_boolfun |-> FALSE, boolfun_n |-> 0, boolfun_all |-> <<>>,
    boolfun_set |-> <<>>, state_set |-> <<>>, cst |-> constraint_empty,
    set_digest |-> sha256_bytes(EmptyBytes), witness |-> None,
    witness_bf |-> None, is_ge |-> FALSE,
    chain |-> sha256_bytes(EmptyBytes) ]

\* an early return of the verifier: Ok(false), or Err with the diverging
\* field and the step the diagnostic names (-1 when it names none)
Return(kind, field, step) == Some([kind |-> kind, field |-> field, step |-> step])

OkFalse == Return("OkFalse", "", -1)

Err(what) == Return("Err", what, -1)

Mismatch(field, step) == Return("Err", field, step)

Continue(v) == [ret |-> None, v |-> v]

Stop(v, r) == [ret |-> r, v |-> v]

\* SELECT_UNIVERSE arm of the verifier
verify_select_universe(v, a) ==
  IF as_u64(a.n) = None THEN Stop(v, Err("bad args"))
  ELSE IF to_ascii_uppercase(a.universe) \notin BoolFunNames
  THEN Stop([v EXCEPT !.is_boolfun = FALSE], OkFalse)
  ELSE LET all == build_boolfun(a.n % 256)
           set == SortBoolFun(all)
       IN Continue([v EXCEPT !.is_boolfun = TRUE, !.is_ge = FALSE,
                             !.cst = constraint_empty, !.state_set = <<>>,
                             !.witness = None, !.boolfun_n = a.n % 256,
                             !.boolfun_all = all, !.boolfun_set = set,
                             !.set_digest = verify_canonical_set_digest_boolfun(set),
                             !.witness_bf = None])

\* FILTER_WEIGHT arm of the verifier
verify_filter_weight(v, a) ==
  IF ~v.is_boolfun THEN Stop(v, OkFalse)
  ELSE IF as_u64(a.min) = None \/ as_u64(a.max) = None
  THEN Stop(v, Err("bad args"))
  ELSE LET out == filter_weight(v.boolfun_all, a.min, a.max)
       IN Continue([v EXCEPT !.boolfun_set = out,
                             !.set_digest = verify_canonical_set_digest_boolfun(out),
                             !.witness_bf = None])

\* TOPK arm of the verifier
verify_topk(v, a) ==
  IF ~v.is_boolfun THEN Stop(v, OkFalse)
  ELSE IF as_u64(a.k) = None THEN Stop(v, Err("bad args"))
  ELSE IF parse_elem(a.target_elem) = None THEN Stop(v, Err("bad target"))
  ELSE IF parse_elem(a.target_elem)[1].n # v.boolfun_n THEN Stop(v, OkFalse)
  ELSE Continue([v EXCEPT !.witness_bf =
                   topk_witness(v.boolfun_set, parse_elem(a.target_elem)[1], a.k)])

\* START_ELEM arm of the verifier
verify_start_elem(v, a) ==
  LET ge == Contains(a.elem, ",")
      f == IF ge THEN parse_tri_elem(a.elem) ELSE parse_frac(a.elem)
      set == IF ge THEN ge_projected ELSE qe
  IN IF f = None
     THEN Stop([v EXCEPT !.is_ge = ge], Err(IF ge THEN "bad tri" ELSE "bad frac"))
     ELSE Continue([v EXCEPT !.is_ge = ge, !.cst = constraint_empty,
                             !.state_set = set,
                             !.set_digest = verify_canonical_set_digest(set),
                             !.witness = f])

\* the SET_BIT arm without the early return on an empty set
verify_set_bit_no_empty(v, a) ==
  IF as_u64(a.i) = None \/ as_u64(a.b) = None THEN Stop(v, Err("bad args"))
  ELSE LET c == set_bit(v.cst, a.i % 256, a.b % 256)
           set == IF v.is_ge THEN filter_ge(ge_state, c)
                  ELSE verify_filter_qe(qe, c)
       IN Continue([v EXCEPT !.cst = c, !.state_set = set,
                             !.set_digest = verify_canonical_set_digest(set)])

\* SET_BIT arm of the verifier: Ok(false) when the refiltered set is empty
verify_set_bit(v, a) ==
  IF as_u64(a.i) = None \/ as_u64(a.b) = None THEN Stop(v, Err("bad args"))
  ELSE LET c == set_bit(v.cst, a.i % 256, a.b % 256)
           set == IF v.is_ge THEN filter_ge(ge_state, c)
                  ELSE verify_filter_qe(qe, c)
       IN IF set = <<>>
          THEN Stop([v EXCEPT !.cst = c, !.state_set = set], OkFalse)
          ELSE Continue([v EXCEPT !.cst = c, !.state_set = set,
                                  !.set_digest = verify_canonical_set_digest(set)])

\* WITNESS_NEAREST arm of the verifier
verify_op_witness_nearest(v, a) ==
  IF a.metric # "ABS_DIFF" THEN Stop(v, OkFalse)
  ELSE LET tri == v.is_ge \/ Contains(a.target_elem, ",")
           t == IF tri THEN parse_tri_elem(a.target_elem)
                ELSE parse_frac(a.target_elem)
       IN IF t = None
          THEN Stop(v, IF tri THEN OkFalse ELSE Err("bad target"))
          ELSE IF verify_witness_nearest(v.state_set, t[1]) = None
          THEN Stop(v, Err("empty"))
          ELSE Continue([v EXCEPT !.witness =
                           verify_witness_nearest(v.state_set, t[1])])

\* the match on rec.op of verify_trace_ndjson: the replayed transition
verify_apply(v, rec) ==
  IF rec.op = "SELECT_UNIVERSE" THEN verify_select_universe(v, rec.args)
  ELSE IF rec.op = "FILTER_WEIGHT" THEN verify_filter_weight(v, rec.args)
  ELSE IF rec.op = "TOPK" THEN verify_topk(v, rec.args)
  ELSE IF rec.op = "START_ELEM" THEN verify_start_elem(v, rec.args)
  ELSE IF rec.op = "SET_BIT" THEN verify_set_bit(v, rec.args)
  ELSE IF rec.op = "WITNESS_NEAREST" THEN verify_op_witness_nearest(v, rec.args)
  ELSE IF rec.op = "RETURN_SET" THEN Continue(v)
  ELSE Stop(v, OkFalse)

\* String::default(), what unwrap_or_default makes of a null set_digest
EmptyString == [text |-> <<>>]

\* the comparisons without the one of post.set_digest
verify_check_no_digest(v, rec) ==
  LET count == IF v.is_boolfun THEN Len(v.boolfun_set) ELSE Len(v.state_set)
      want == IF v.is_boolfun THEN MapBoolFunStr(v.witness_bf)
              ELSE MapFracStr(v.witness)
      sd == verify_step_digest(v.chain, rec.op, rec.args, v.set_digest)
  IN IF rec.post.count # count
     THEN Stop(v, Mismatch("post.count", rec.step))
     ELSE IF want # None /\ rec.post.witness # want
     THEN Stop(v, Mismatch("post.witness", rec.step))
     ELSE IF rec.step_digest # hex32(sd)
     THEN Stop([v EXCEPT !.chain = sd], Mismatch("step_digest", rec.step))
     ELSE Continue([v EXCEPT !.chain = sd])

\* the comparisons without the one of post.count
verify_check_no_count(v, rec) ==
  LET post_set_hex == IF rec.post.set_digest = None THEN EmptyString
                      ELSE rec.post.set_digest[1]
      want == IF v.is_boolfun THEN MapBoolFunStr(v.witness_bf)
              ELSE MapFracStr(v.witness)
      sd == verify_step_digest(v.chain, rec.op, rec.args, v.set_digest)
  IN IF post_set_hex # hex32(v.set_digest)
     THEN Stop(v, Mismatch("post.set_digest", rec.step))
     ELSE IF want # None /\ rec.post.witness # want
     THEN Stop(v, Mismatch("post.witness", rec.step))
     ELSE IF rec.step_digest # hex32(sd)
     THEN Stop([v EXCEPT !.chain = sd], Mismatch("step_digest", rec.step))
     ELSE Continue([v EXCEPT !.chain = sd])

\* the comparisons with one more, of pre.constraint_mask against the seven
\* bits of a signature
verify_check_reads_pre(v, rec) ==
  LET post_set_hex == IF rec.post.set_digest = None THEN EmptyString
                      ELSE rec.post.set_digest[1]
      count == IF v.is_boolfun THEN Len(v.boolfun_set) ELSE Len(v.state_set)
      want == IF v.is_boolfun THEN MapBoolFunStr(v.witness_bf)
              ELSE MapFracStr(v.witness)
      sd == verify_step_digest(v.chain, rec.op, rec.args, v.set_digest)
  IN IF rec.pre.constraint_mask > 127
     THEN Stop(v, Mismatch("pre.constraint_mask", rec.step))
     ELSE IF post_set_hex # hex32(v.set_digest)
     THEN Stop(v, Mismatch("post.set_digest", rec.step))
     ELSE IF rec.post.count # count
     THEN Stop(v, Mismatch("post.count", rec.step))
     ELSE IF want # None /\ rec.post.witness # want
     THEN Stop(v, Mismatch("post.witness", rec.step))
     ELSE IF rec.step_digest # hex32(sd)
     THEN Stop([v EXCEPT !.chain = sd], Mismatch("step_digest", rec.step))
     ELSE Continue([v EXCEPT !.chain = sd])

\* the comparisons after the match: post.set_digest, post.count,
\* post.witness (only when the replay holds a witness), then step_digest
verify_check(v, rec) ==
  LET post_set_hex == IF rec.post.set_digest = None THEN EmptyString
                      ELSE rec.post.set_digest[1]
      count == IF v.is_boolfun THEN Len(v.boolfun_set) ELSE Len(v.state_set)
      want == IF v.is_boolfun THEN MapBoolFunStr(v.witness_bf)
              ELSE MapFracStr(v.witness)
      sd == verify_step_digest(v.chain, rec.op, rec.args, v.set_digest)
  IN IF post_set_hex # hex32(v.set_digest)
     THEN Stop(v, Mismatch("post.set_digest", rec.step))
     ELSE IF rec.post.count # count
     THEN Stop(v, Mismatch("post.count", rec.step))
     ELSE IF want # None /\ rec.post.witness # want
     THEN Stop(v, Mismatch("post.witness", rec.step))
     ELSE IF rec.step_digest # hex32(sd)
     THEN Stop([v EXCEPT !.chain = sd], Mismatch("step_digest", rec.step))
     ELSE Continue([v EXCEPT !.chain = sd])

RECURSIVE verify_loop(_, _, _)
\* the loop over the lines: the first early return ends the run
verify_loop(v, txt, k) ==
  IF k > Len(txt)
  THEN [kind |-> "OkTrue", field |-> "", step |-> -1, at |-> k, chain |-> v.chain]
  ELSE LET a == verify_apply(v, txt[k])
       IN IF a.ret # None
          THEN [kind |-> a.ret[1].kind, field |-> a.ret[1].field,
                step |-> a.ret[1].step, at |-> k, chain |-> a.v.chain]
          ELSE LET c == verify_check(a.v, txt[k])
               IN IF c.ret # None
                  THEN [kind |-> c.ret[1].kind, field |-> c.ret[1].field,
                        step |-> c.ret[1].step, at |-> k, chain |-> c.v.chain]
                  ELSE verify_loop(c.v, txt, k + 1)

\* hex of the digest of the empty set: merkle_root of no leaves
EmptySetDigest == hex32(merkle_root(<<>>))

\* verify_trace_ndjson: Ok(true), Ok(false) or Err; `at` is the record it
\* returned at (one past the last when it read them all), `chain` its
\* accumulator on return
verify_trace_ndjson(txt) == verify_loop(VerifierInit, txt, 1)


(***************************************************************************)
(* State of one run of run_trace_and_write.                                *)
(***************************************************************************)
VARIABLES
  ops,                  \* the op list handed to the executor
  step_idx,             \* index of the op the loop is at
  pc,                   \* "run", "done" (Ok returned) or "error" (Err returned)
  boolfun_all, boolfun_set, boolfun_n, is_boolfun,
  state_set, cst, set_digest, witness, witness_bf, is_ge,
  chain,                \* the rolling chain hash
  want_max_items, want_include_witness,
  out_lines,            \* the records pushed so far
  trace_file,           \* trace.ndjson once written (None before)
  replay,               \* what the verifier returned for trace.ndjson
  result,               \* result.json once written (None before)
  tamper,               \* the change made to a copy of trace.ndjson (None: none)
  vfile,                \* the changed copy handed to the verifier
  verdict,              \* what the verifier returned for the changed copy
  call,                 \* a direct call of one function: its name and argument
  ret                   \* what that call returned (None before it returns)

vars == << ops, step_idx, pc, boolfun_all, boolfun_set, boolfun_n, is_boolfun,
           state_set, cst, set_digest, witness, witness_bf, is_ge, chain,
           want_max_items, want_include_witness, out_lines, trace_file,
           replay, result, tamper, vfile, verdict, call, ret >>

bf_vars == << boolfun_all, boolfun_set, boolfun_n, is_boolfun, witness_bf >>

q_vars == << state_set, cst, witness, is_ge >>

want_vars == << want_max_items, want_include_witness >>

end_vars == << trace_file, replay, result >>

tamper_vars == << tamper, vfile, verdict >>

call_vars == << call, ret >>

(***************************************************************************)
(* Inputs: the elements, targets and ops the op lists are made of.         *)
(***************************************************************************)
Elem_1_2 == <<"1", "/", "2">>

Elem_7_200 == <<"7", "/", "2", "0", "0">>

Elem_1_4 == <<"1", "/", "4">>

Elem_3_4_5 == <<"3", ",", "4", ",", "5">>

Elem_bad == <<"x">>

Elem_bin_0110 == <<"b", "i", "n", ":", "0", "1", "1", "0">>

Name_BOOLFUN == <<"B", "O", "O", "L", "F", "U", "N">>

\* a line parse_op_to_semtrace rejects (it returns Err)
BadLine == Op("", [line |-> <<"N", "O", "P">>])

OpAlphabet ==
  { SelectUniverse(Name_BOOLFUN, 2),
    FilterWeight(1, 2),
    TopK(Elem_bin_0110, 2),
    StartElem(Elem_1_2), StartElem(Elem_3_4_5),
    SetBit(2, 1), SetBit(1, 0), SetBit(4, 1),
    WitnessNearest(Elem_1_4, "ABS_DIFF"), WitnessNearest(Elem_3_4_5, "ABS_DIFF"),
    ReturnSet(20, TRUE),
    BadLine }

\* semtrace.rs demo_trace (scenario S1)
demo_trace ==
  << StartElem(Elem_7_200), SetBit(2, 1),
     WitnessNearest(Elem_7_200, "ABS_DIFF"), ReturnSet(20, TRUE) >>

\* op lists of length 0..MaxOps over the alphabet
FreeOpLists == UNION { [1..n -> OpAlphabet] : n \in 0..MaxOps }

OpLists == FreeOpLists \cup { demo_trace }

(***************************************************************************)
(* The executor: run_trace_and_write.                                      *)
(***************************************************************************)
\* the locals of run_trace_and_write before the loop
InitLocals(lists) ==
  /\ ops \in lists
  /\ step_idx = 0
  /\ pc = "run"
  /\ boolfun_all = <<>>
  /\ boolfun_set = <<>>
  /\ boolfun_n = 0
  /\ is_boolfun = FALSE
  /\ state_set = <<>>
  /\ cst = constraint_empty
  /\ set_digest = sha256_bytes(EmptyBytes)
  /\ witness = None
  /\ witness_bf = None
  /\ is_ge = FALSE
  /\ chain = sha256_bytes(EmptyBytes)
  /\ want_max_items = 20
  /\ want_include_witness = FALSE
  /\ out_lines = <<>>
  /\ trace_file = None
  /\ replay = None
  /\ result = None
  /\ tamper = None
  /\ vfile = None
  /\ verdict = None

InitWith(lists) == InitLocals(lists) /\ call = None /\ ret = None

Init == InitWith(OpLists)

CurOp == ops[step_idx + 1]

\* the loop is at an op of this name
At(name) == pc = "run" /\ step_idx < Len(ops) /\ CurOp.op = name

\* the pre snapshot with a null set digest whenever the set is empty
PreSnapshot_null_when_empty ==
  [ set_digest |->
      IF (is_boolfun /\ boolfun_set = <<>>) \/ (~is_boolfun /\ state_set = <<>>)
      THEN None ELSE Some(hex32(set_digest)),
    count |-> IF is_boolfun THEN Len(boolfun_set) ELSE Len(state_set),
    constraint_mask |-> cst.mask,
    constraint_value |-> cst.value ]

\* the pre snapshot taken before the match
PreSnapshot ==
  [ set_digest |->
      IF step_idx = 0 /\ ((is_boolfun /\ boolfun_set = <<>>)
                          \/ (~is_boolfun /\ state_set = <<>>))
      THEN None ELSE Some(hex32(set_digest)),
    count |-> IF is_boolfun THEN Len(boolfun_set) ELSE Len(state_set),
    constraint_mask |-> cst.mask,
    constraint_value |-> cst.value ]

\* the post snapshot with the count always taken from state_set
PostSnapshot_state_count(digest, isbf, bfset, set, w, wbf) ==
  [ set_digest |-> Some(hex32(digest)),
    count |-> Len(set),
    witness |-> IF isbf THEN MapBoolFunStr(wbf) ELSE MapFracStr(w) ]

\* the post snapshot of a state
PostSnapshot(digest, isbf, bfset, set, w, wbf) ==
  [ set_digest |-> Some(hex32(digest)),
    count |-> IF isbf THEN Len(bfset) ELSE Len(set),
    witness |-> IF isbf THEN MapBoolFunStr(wbf) ELSE MapFracStr(w) ]

\* the tail of the loop body with the record carrying the chain value it
\* started from in place of the new step digest
Emit_stale_digest ==
  LET sd == step_digest(chain, CurOp.op, CurOp.args, set_digest')
  IN /\ chain' = sd
     /\ out_lines' = Append(out_lines,
          [ step |-> step_idx, op |-> CurOp.op, args |-> CurOp.args,
            pre |-> PreSnapshot,
            post |-> PostSnapshot(set_digest', is_boolfun', boolfun_set',
                                  state_set', witness', witness_bf'),
            step_digest |-> hex32(chain) ])
     /\ step_idx' = step_idx + 1
     /\ UNCHANGED << ops, pc, end_vars, tamper_vars, call_vars >>

\* the tail of the loop body: post snapshot, step digest, chain, record
Emit ==
  LET sd == step_digest(chain, CurOp.op, CurOp.args, set_digest')
  IN /\ chain' = sd
     /\ out_lines' = Append(out_lines,
          [ step |-> step_idx, op |-> CurOp.op, args |-> CurOp.args,
            pre |-> PreSnapshot,
            post |-> PostSnapshot(set_digest', is_boolfun', boolfun_set',
                                  state_set', witness', witness_bf'),
            step_digest |-> hex32(sd) ])
     /\ step_idx' = step_idx + 1
     /\ UNCHANGED << ops, pc, end_vars, tamper_vars, call_vars >>

\* a failing op skipped: the loop goes on with the next op
Fatal_skip ==
  /\ step_idx' = step_idx + 1
  /\ UNCHANGED << ops, pc, bf_vars, q_vars, set_digest, chain, want_vars,
                  out_lines, end_vars, tamper_vars, call_vars >>

\* an early `return Err(..)`: nothing is written
Fatal ==
  /\ pc' = "error"
  /\ UNCHANGED << ops, step_idx, bf_vars, q_vars, set_digest, chain, want_vars,
                  out_lines, end_vars, tamper_vars, call_vars >>

\* parse_op_to_semtrace(raw_op)? fails
ExecBadLine ==
  /\ pc = "run" /\ step_idx < Len(ops)
  /\ CurOp.op \notin { "SELECT_UNIVERSE", "FILTER_WEIGHT", "TOPK", "START_ELEM",
                       "SET_BIT", "WITNESS_NEAREST", "RETURN_SET" }
  /\ Fatal

ExecSelectUniverse ==
  /\ At("SELECT_UNIVERSE")
  /\ IF to_ascii_uppercase(CurOp.args.universe) \notin BoolFunNames
     THEN Fatal
     ELSE /\ is_boolfun' = TRUE
          /\ is_ge' = FALSE
          /\ cst' = constraint_empty
          /\ state_set' = <<>>
          /\ witness' = None
          /\ boolfun_n' = CurOp.args.n % 256
          /\ boolfun_all' = build_boolfun(CurOp.args.n % 256)
          /\ boolfun_set' = SortBoolFun(boolfun_all')
          /\ set_digest' = canonical_set_digest_boolfun(boolfun_set')
          /\ witness_bf' = None
          /\ UNCHANGED want_vars
          /\ Emit

ExecFilterWeight ==
  /\ At("FILTER_WEIGHT")
  /\ IF ~is_boolfun
     THEN Fatal
     ELSE /\ boolfun_set' = filter_weight(boolfun_all, CurOp.args.min, CurOp.args.max)
          /\ set_digest' = canonical_set_digest_boolfun(boolfun_set')
          /\ witness_bf' = None
          /\ UNCHANGED << boolfun_all, boolfun_n, is_boolfun, q_vars, want_vars >>
          /\ Emit

ExecTopK ==
  /\ At("TOPK")
  /\ LET target == parse_elem(CurOp.args.target_elem)
     IN IF ~is_boolfun \/ target = None \/ target[1].n # boolfun_n
        THEN Fatal
        ELSE /\ witness_bf' = topk_witness(boolfun_set, target[1], CurOp.args.k)
             /\ UNCHANGED << boolfun_all, boolfun_set, boolfun_n, is_boolfun,
                             q_vars, set_digest, want_vars >>
             /\ Emit

ExecStartElem ==
  /\ At("START_ELEM")
  /\ LET elem == CurOp.args.elem
         ge == Contains(elem, ",")
         f == IF ge THEN parse_tri_elem(elem) ELSE parse_frac(elem)
     IN IF f = None
        THEN Fatal
        ELSE /\ is_ge' = ge
             /\ cst' = constraint_empty
             /\ state_set' = IF ge THEN ge_projected ELSE qe
             /\ set_digest' = canonical_set_digest(state_set')
             /\ witness' = f
             /\ UNCHANGED << bf_vars, want_vars >>
             /\ Emit

\* a panic inside the loop: the process ends, nothing is written
Panic ==
  /\ pc' = "panic"
  /\ UNCHANGED << ops, step_idx, bf_vars, q_vars, set_digest, chain, want_vars,
                  out_lines, end_vars, tamper_vars, call_vars >>

ExecSetBit ==
  /\ At("SET_BIT")
  /\ \E checked \in IF shl_overflows(CurOp.args.i % 256) THEN { TRUE, FALSE }
                     ELSE { FALSE } :
       IF checked
       THEN Panic
       ELSE /\ cst' = set_bit(cst, CurOp.args.i % 256, CurOp.args.b % 256)
            /\ state_set' = IF is_ge THEN filter_ge(ge_state, cst')
                             ELSE filter_qe(qe, cst')
            /\ set_digest' = canonical_set_digest(state_set')
            /\ UNCHANGED << bf_vars, witness, is_ge, want_vars >>
            /\ Emit

ExecWitnessNearest ==
  /\ At("WITNESS_NEAREST")
  /\ LET target == CurOp.args.target_elem
         t == IF is_ge \/ Contains(target, ",") THEN parse_tri_elem(target)
              ELSE parse_frac(target)
     IN IF CurOp.args.metric # "ABS_DIFF" \/ t = None
           \/ witness_nearest(state_set, t[1]) = None
        THEN Fatal
        ELSE /\ witness' = witness_nearest(state_set, t[1])
             /\ UNCHANGED << bf_vars, state_set, cst, is_ge, set_digest, want_vars >>
             /\ Emit

ExecReturnSet ==
  /\ At("RETURN_SET")
  /\ want_max_items' = CurOp.args.max_items
  /\ want_include_witness' = CurOp.args.include_witness
  /\ UNCHANGED << bf_vars, q_vars, set_digest >>
  /\ Emit

\* after the loop: write trace.ndjson, run the verifier on it, write
\* result.json and return; an Err of the verifier is propagated
WriteAndVerify ==
  /\ pc = "run" /\ step_idx = Len(ops)
  /\ trace_file' = Some(out_lines)
  /\ replay' = Some(verify_trace_ndjson(out_lines))
  /\ IF replay'[1].kind = "Err"
     THEN pc' = "error" /\ result' = None
     ELSE /\ pc' = "done"
          /\ result' = Some(
               [ verdict |-> IF (IF is_boolfun THEN boolfun_set # <<>>
                                 ELSE state_set # <<>>)
                             THEN "OK" ELSE "EMPTY_SET",
                 valid |-> replay'[1].kind = "OkTrue",
                 chain_hash |-> hex32(chain),
                 count |-> IF is_boolfun THEN Len(boolfun_set) ELSE Len(state_set),
                 witness |-> IF is_boolfun THEN MapBoolFunStr(witness_bf)
                             ELSE MapFracStr(witness),
                 constraint |-> cst,
                 return_set |-> [ max_items |-> want_max_items,
                                  include_witness |-> want_include_witness ] ])
  /\ UNCHANGED << ops, step_idx, bf_vars, q_vars, set_digest, chain, want_vars,
                  out_lines, tamper_vars, call_vars >>

Next ==
  \/ ExecBadLine
  \/ ExecSelectUniverse
  \/ ExecFilterWeight
  \/ ExecTopK
  \/ ExecStartElem
  \/ ExecSetBit
  \/ ExecWitnessNearest
  \/ ExecReturnSet
  \/ WriteAndVerify

Spec == Init /\ [][Next]_vars

(***************************************************************************)
(* The loop of run_trace_and_write as a function of the op list: the       *)
(* locals after the loop for a given list, so that the runs of two lists   *)
(* can be compared in one state.                                           *)
(***************************************************************************)
\* the locals before the loop (exec.rs 305-326)
RunLocals0 ==
  [ pc |-> "run", boolfun_all |-> <<>>, boolfun_set |-> <<>>, boolfun_n |-> 0,
    is_boolfun |-> FALSE, state_set |-> <<>>, cst |-> constraint_empty,
    set_digest |-> sha256_bytes(EmptyBytes), witness |-> None,
    witness_bf |-> None, is_ge |-> FALSE, chain |-> sha256_bytes(EmptyBytes),
    records |-> 0 ]

\* one pass of the loop body on op o from locals st
RunOp(st, o) ==
  LET fatal == [st EXCEPT !.pc = "error"]
      emit(s2) == [s2 EXCEPT !.chain = step_digest(st.chain, o.op, o.args, s2.set_digest),
                             !.records = st.records + 1]
  IN CASE o.op = "SELECT_UNIVERSE" ->
            IF to_ascii_uppercase(o.args.universe) \notin BoolFunNames THEN fatal
            ELSE LET all == build_boolfun(o.args.n % 256)
                     set == SortBoolFun(all)
                 IN emit([st EXCEPT !.is_boolfun = TRUE, !.is_ge = FALSE,
                                    !.cst = constraint_empty, !.state_set = <<>>,
                                    !.witness = None, !.boolfun_n = o.args.n % 256,
                                    !.boolfun_all = all, !.boolfun_set = set,
                                    !.set_digest = canonical_set_digest_boolfun(set),
                                    !.witness_bf = None])
       [] o.op = "FILTER_WEIGHT" ->
            IF ~st.is_boolfun THEN fatal
            ELSE LET set == filter_weight(st.boolfun_all, o.args.min, o.args.max)
                 IN emit([st EXCEPT !.boolfun_set = set,
                                    !.set_digest = canonical_set_digest_boolfun(set),
                                    !.witness_bf = None])
       [] o.op = "TOPK" ->
            LET target == parse_elem(o.args.target_elem)
            IN IF ~st.is_boolfun \/ target = None \/ target[1].n # st.boolfun_n
               THEN fatal
               ELSE emit([st EXCEPT !.witness_bf =
                            topk_witness(st.boolfun_set, target[1], o.args.k)])
       [] o.op = "START_ELEM" ->
            LET ge == Contains(o.args.elem, ",")
                f == IF ge THEN parse_tri_elem(o.args.elem) ELSE parse_frac(o.args.elem)
                set == IF ge THEN ge_projected ELSE qe
            IN IF f = None THEN fatal
               ELSE emit([st EXCEPT !.is_ge = ge, !.cst = constraint_empty,
                                    !.state_set = set,
                                    !.set_digest = canonical_set_digest(set),
                                    !.witness = f])
       [] o.op = "SET_BIT" ->
            LET c == set_bit(st.cst, o.args.i % 256, o.args.b % 256)
                set == IF st.is_ge THEN filter_ge(ge_state, c) ELSE filter_qe(qe, c)
            IN emit([st EXCEPT !.cst = c, !.state_set = set,
                               !.set_digest = canonical_set_digest(set)])
       [] o.op = "WITNESS_NEAREST" ->
            LET target == o.args.target_elem
                t == IF st.is_ge \/ Contains(target, ",") THEN parse_tri_elem(target)
                     ELSE parse_frac(target)
            IN IF o.args.metric # "ABS_DIFF" \/ t = None
                  \/ witness_nearest(st.state_set, t[1]) = None
               THEN fatal
               ELSE emit([st EXCEPT !.witness = witness_nearest(st.state_set, t[1])])
       [] o.op = "RETURN_SET" -> emit(st)
       [] OTHER -> fatal

RECURSIVE RunFrom(_, _, _)
RunFrom(st, l, k) ==
  IF k > Len(l) \/ st.pc = "error" THEN st
  ELSE RunFrom(RunOp(st, l[k]), l, k + 1)

\* the locals when the loop over op list l ends (pc "error": an early return)
RunOps(l) == RunFrom(RunLocals0, l, 1)

\* the locals of the run in progress, as a record
Locals ==
  [ pc |-> IF pc = "error" /\ step_idx = Len(out_lines) /\ replay = None
           THEN "error" ELSE "run",
    boolfun_all |-> boolfun_all, boolfun_set |-> boolfun_set,
    boolfun_n |-> boolfun_n, is_boolfun |-> is_boolfun, state_set |-> state_set,
    cst |-> cst, set_digest |-> set_digest, witness |-> witness,
    witness_bf |-> witness_bf, is_ge |-> is_ge, chain |-> chain,
    records |-> Len(out_lines) ]

(***************************************************************************)
(* Runs over the universe ops: SELECT_UNIVERSE with the three universe     *)
(* names and another, FILTER_WEIGHT and TOPK with several arguments, both kinds of     *)
(* START_ELEM, and RETURN_SET with two parameter pairs.                    *)
(***************************************************************************)
Name_Rational == <<"R", "a", "t", "i", "o", "n", "a", "l">>

Name_Triangle == <<"T", "r", "i", "a", "n", "g", "l", "e">>

\* not the name of a universe
Name_Graph == <<"G", "r", "a", "p", "h">>

Elem_bin_01 == <<"b", "i", "n", ":", "0", "1">>

UniverseAlphabet ==
  { SelectUniverse(Name_BOOLFUN, 2), SelectUniverse(Name_Rational, 2),
    SelectUniverse(Name_Triangle, 2), SelectUniverse(Name_Graph, 2),
    FilterWeight(1, 2), FilterWeight(3, 4),
    TopK(Elem_bin_0110, 2), TopK(Elem_bin_0110, 1), TopK(Elem_bin_01, 1),
    StartElem(Elem_1_2), StartElem(Elem_3_4_5),
    SetBit(2, 1),
    WitnessNearest(Elem_1_4, "ABS_DIFF"),
    ReturnSet(20, TRUE), ReturnSet(5, FALSE),
    BadLine }

UniverseOpLists == UNION { [1..n -> UniverseAlphabet] : n \in 0..MaxOps }

InitU == InitWith(UniverseOpLists)

SpecU == InitU /\ [][Next]_vars

(***************************************************************************)
(* verify_trace_ndjson is public and takes any path: a second party hands  *)
(* it a changed copy of the trace.ndjson a run wrote.  One action per kind *)
(* of change; the change is drawn with \E.                                 *)
(***************************************************************************)
Str_1_1 == << "1", "/", "1" >>

TamperAlphabet ==
  { SelectUniverse(Name_BOOLFUN, 2),
    FilterWeight(1, 2),
    TopK(Elem_bin_0110, 2),
    StartElem(Elem_1_2),
    SetBit(0, 1), SetBit(1, 0),
    WitnessNearest(Elem_1_4, "ABS_DIFF"),
    ReturnSet(20, TRUE),
    BadLine }

TamperOpLists == UNION { [1..n -> TamperAlphabet] : n \in 0..MaxOps }

InitT == InitWith(TamperOpLists)

\* a changed copy f of trace.ndjson is put in place; kind and k say what
\* was changed and where
ChangeCopy(kind, k, f) ==
  /\ trace_file # None
  /\ tamper = None
  /\ tamper' = Some([kind |-> kind, k |-> k])
  /\ vfile' = Some(f)
  /\ UNCHANGED << ops, step_idx, pc, bf_vars, q_vars, set_digest, chain,
                  want_vars, out_lines, end_vars, verdict, call_vars >>

File == trace_file[1]

\* post.set_digest of record k replaced by another value
ChangeSetDigest ==
  /\ trace_file # None
  /\ \E k \in 1..Len(File) :
       \E d \in {None, Some(EmptySetDigest)} \ {File[k].post.set_digest} :
         ChangeCopy("post.set_digest", k, [File EXCEPT ![k].post.set_digest = d])

\* post.count of record k replaced by another value
ChangeCount ==
  /\ trace_file # None
  /\ \E k \in 1..Len(File) :
       \E c \in {0, File[k].post.count + 1} \ {File[k].post.count} :
         ChangeCopy("post.count", k, [File EXCEPT ![k].post.count = c])

\* post.witness of record k replaced by another value
ChangeWitness ==
  /\ trace_file # None
  /\ \E k \in 1..Len(File) :
       \E w \in {None, Some(Str_1_1)} \ {File[k].post.witness} :
         ChangeCopy("post.witness", k, [File EXCEPT ![k].post.witness = w])

\* step_digest of record k replaced by another value
ChangeStepDigest ==
  /\ trace_file # None
  /\ \E k \in 1..Len(File) :
       /\ File[k].step_digest # EmptySetDigest
       /\ ChangeCopy("step_digest", k, [File EXCEPT ![k].step_digest = EmptySetDigest])

\* only the first n records of the file are kept
KeepPrefix ==
  /\ trace_file # None
  /\ \E n \in 0..(Len(File) - 1) :
       ChangeCopy("prefix", n, SubSeq(File, 1, n))

\* the op name of record k replaced by a name the verifier does not know
ForgeOp ==
  /\ trace_file # None
  /\ \E k \in 1..Len(File) :
       ChangeCopy("op", k, [File EXCEPT ![k].op = "NOP"])

\* the arguments of record k replaced by ones the arm of its op refuses
ForgedArgs(rec) ==
  IF rec.op = "SELECT_UNIVERSE" THEN { [rec.args EXCEPT !.n = -1] }
  ELSE IF rec.op = "FILTER_WEIGHT" THEN { [rec.args EXCEPT !.max = -1] }
  ELSE IF rec.op = "TOPK" THEN { [rec.args EXCEPT !.k = -1],
                                 [rec.args EXCEPT !.target_elem = Elem_bad] }
  ELSE IF rec.op = "START_ELEM" THEN { [rec.args EXCEPT !.elem = Elem_bad] }
  ELSE IF rec.op = "SET_BIT" THEN { [rec.args EXCEPT !.i = -1] }
  ELSE IF rec.op = "WITNESS_NEAREST"
  THEN { [rec.args EXCEPT !.metric = "L2"],
         [rec.args EXCEPT !.target_elem = Elem_bad] }
  ELSE {}

ForgeArgs ==
  /\ trace_file # None
  /\ \E k \in 1..Len(File) :
       \E a \in ForgedArgs(File[k]) :
         ChangeCopy("args", k, [File EXCEPT ![k].args = a])

\* the call verify_trace_ndjson(path of the changed copy)
VerifyCopy ==
  /\ vfile # None
  /\ verdict = None
  /\ verdict' = Some(verify_trace_ndjson(vfile[1]))
  /\ UNCHANGED << ops, step_idx, pc, bf_vars, q_vars, set_digest, chain,
                  want_vars, out_lines, end_vars, tamper, vfile, call_vars >>

NextT ==
  \/ Next
  \/ ChangeSetDigest
  \/ ChangeCount
  \/ ChangeWitness
  \/ ChangeStepDigest
  \/ KeepPrefix
  \/ ForgeOp
  \/ ForgeArgs
  \/ VerifyCopy

SpecT == InitT /\ [][NextT]_vars

(***************************************************************************)
(* Runs over op lines, the failing ones included: each line goes through   *)
(* parse_op_to_semtrace at the head of the loop body.                      *)
(***************************************************************************)
\* the (op, args) pair of a line; a line the parser rejects is kept as it
\* is, under the empty op name
ParsedLine(line) ==
  IF parse_op_to_semtrace(line) = None THEN Op("", [line |-> line])
  ELSE parse_op_to_semtrace(line)[1]

ErrorLines ==
  { <<"S", "E", "L", "E", "C", "T", "_", "U", "N", "I", "V", "E", "R", "S", "E", " ", "u", "n", "i", "v", "e", "r", "s", "e", "=", "B", "O", "O", "L", "F", "U", "N", " ", "n", "=", "2">>,
    <<"S", "E", "L", "E", "C", "T", "_", "U", "N", "I", "V", "E", "R", "S", "E", " ", "u", "n", "i", "v", "e", "r", "s", "e", "=", "G", "r", "a", "p", "h", " ", "n", "=", "2">>,
    <<"F", "I", "L", "T", "E", "R", "_", "W", "E", "I", "G", "H", "T", " ", "m", "i", "n", "=", "1", " ", "m", "a", "x", "=", "2">>,
    <<"T", "O", "P", "K", " ", "t", "a", "r", "g", "e", "t", "_", "e", "l", "e", "m", "=", "b", "i", "n", ":", "0", "1", "1", "0", " ", "k", "=", "1">>,
    <<"T", "O", "P", "K", " ", "t", "a", "r", "g", "e", "t", "_", "e", "l", "e", "m", "=", "b", "i", "n", ":", "0", "1", " ", "k", "=", "1">>,
    <<"L", "O", "A", "D", " ", "2", ",", "3", ",", "4">>,
    <<"L", "O", "A", "D", " ", "x">>,
    <<"M", "A", "S", "K", "_", "B", "I", "T", " ", "b", "i", "t", "=", "0", " ", "v", "a", "l", "=", "1">>,
    <<"M", "A", "S", "K", "_", "B", "I", "T", " ", "b", "i", "t", "=", "2">>,
    <<"S", "E", "T", "_", "B", "I", "T", " ", "i", "=", "2", " ", "b", "=", "1">>,
    <<"W", "I", "T", "N", "E", "S", "S", "_", "N", "E", "A", "R", "E", "S", "T", " ", "t", "a", "r", "g", "e", "t", "=", "1", ",", "2", ",", "2", " ", "m", "e", "t", "r", "i", "c", "=", "L", "2">>,
    <<"R", "E", "T", "U", "R", "N", "_", "S", "E", "T">> }

ErrorAlphabet == { ParsedLine(line) : line \in ErrorLines }

ErrorOpLists == UNION { [1..n -> ErrorAlphabet] : n \in 0..MaxOps }

InitE == InitWith(ErrorOpLists)

SpecE == InitE /\ [][Next]_vars

(***************************************************************************)
(* Runs over SET_BIT lines: both values of a bit, the constant bit 1, bit  *)
(* indices beyond the signature, a START_ELEM of each kind and a           *)
(* WITNESS_NEAREST.                                                        *)
(***************************************************************************)
BitLines ==
  { <<"L", "O", "A", "D", " ", "1", "/", "2">>,
    <<"L", "O", "A", "D", " ", "3", ",", "4", ",", "5">>,
    <<"M", "A", "S", "K", "_", "B", "I", "T", " ", "b", "i", "t", "=", "2", " ", "v", "a", "l", "=", "1">>,
    <<"M", "A", "S", "K", "_", "B", "I", "T", " ", "b", "i", "t", "=", "2", " ", "v", "a", "l", "=", "0">>,
    <<"M", "A", "S", "K", "_", "B", "I", "T", " ", "b", "i", "t", "=", "1", " ", "v", "a", "l", "=", "1">>,
    <<"M", "A", "S", "K", "_", "B", "I", "T", " ", "b", "i", "t", "=", "1", " ", "v", "a", "l", "=", "0">>,
    <<"M", "A", "S", "K", "_", "B", "I", "T", " ", "b", "i", "t", "=", "5", " ", "v", "a", "l", "=", "1">>,
    <<"M", "A", "S", "K", "_", "B", "I", "T", " ", "b", "i", "t", "=", "7", " ", "v", "a", "l", "=", "1">>,
    <<"M", "A", "S", "K", "_", "B", "I", "T", " ", "b", "i", "t", "=", "9", " ", "v", "a", "l", "=", "0">>,
    <<"W", "I", "T", "N", "E", "S", "S", "_", "N", "E", "A", "R", "E", "S", "T", " ", "t", "a", "r", "g", "e", "t", "=", "1", "/", "4">> }

BitAlphabet == { ParsedLine(line) : line \in BitLines }

BitOpLists == UNION { [1..n -> BitAlphabet] : n \in 0..MaxOps }

InitB == InitWith(BitOpLists)

\* the arms of the loop these lines reach
NextB ==
  \/ ExecStartElem
  \/ ExecSetBit
  \/ ExecWitnessNearest
  \/ WriteAndVerify

SpecB == InitB /\ [][NextB]_vars

(***************************************************************************)
(* Direct calls.  build_boolfun, parse_elem, merkle_root and               *)
(* parse_op_to_semtrace are functions of their argument alone: a caller    *)
(* hands one an argument drawn from the sets below and keeps what it       *)
(* returns.                                                                *)
(***************************************************************************)
MaxBinLen == 4

MaxLeaves == 5

\* a call that returned v, and a call that panicked
Returned(v) == << "ok", v >>

Panicked == << "panic" >>

Call(fn, arg) == [fn |-> fn, arg |-> arg]

\* the arities build_boolfun is called with; arity 5 (2^32 elements) is
\* beyond TLC's integers and is not drawn
Arities == {0, 1, 2, 3, 4, 6}

\* build_boolfun(n) does not return for n >= 6: for 2^n > 64 the assert
\* fails, and for n = 6 total is u64::MAX (not 2^64) and
\* Vec::with_capacity(total as usize) panics with "capacity overflow"
build_boolfun_panics(n) == n >= 6

U16Values == {0, 1, 255, 4660, 48879, 65535}

HexText(v) == <<"0", "x">> \o Hex04(v)

DecText(v) == <<"u", "1", "6", ":">> \o NatToStr(v)

BinText(b) == <<"b", "i", "n", ":">> \o b

Bin_01101001 == <<"0", "1", "1", "0", "1", "0", "0", "1">>

Bin_16 == <<"1", "0", "1", "1", "1", "1", "1", "0", "1", "1", "1", "0", "1", "1", "1", "1">>

\* texts after "bin:": every text of up to MaxBinLen characters over
\* '0', '1' and '2', and two longer tables
BinBodies ==
  UNION { [1..n -> {"0", "1", "2"}] : n \in 0..MaxBinLen }
    \cup { Bin_01101001, Bin_16, <<"0", "1", "1", "0", "1", "0", "0", "1", "2">>, <<"0", "1", "1", "0", "1">> }

ElemTexts ==
  { HexText(v) : v \in U16Values } \cup { DecText(v) : v \in U16Values }
    \cup { BinText(b) : b \in BinBodies }
    \cup { <<"0", "X", "b", "e", "e", "f">>, <<" ", "0", "x", "B", "E", "E", "F", " ">>, <<"0", "x", "1", "B", "E", "E", "F">>, <<"0", "x", "B", "E", "E", "G">>, <<"0", "x">>, <<"B", "E", "E", "F">>,
           <<"u", "1", "6", ":", "7", "0", "0", "0", "0">>, <<"u", "1", "6", ":", "1", "2", "a">>, <<"u", "1", "6", ":">>, <<"u", "1", "6", ":", "-", "1">>, <<"1", "/", "2">> }

Leaf_1_2 == sha256_bytes(frac_canonical_bytes(Frac(1, 2)))

Leaf_1_3 == sha256_bytes(frac_canonical_bytes(Frac(1, 3)))

LeafLists == UNION { [1..n -> {Leaf_1_2, Leaf_1_3}] : n \in 0..MaxLeaves }

LineTexts ==
  { <<"S", "E", "T", "_", "B", "I", "T", " ", "i", "=", "2", " ", "b", "=", "1">>, <<"S", "E", "T", "_", "B", "I", "T", " ", "b", "i", "t", "=", "2", " ", "v", "a", "l", "=", "1">>,
    <<"M", "A", "S", "K", "_", "B", "I", "T", " ", "b", "i", "t", "=", "2", " ", "v", "a", "l", "=", "1">>, <<"M", "A", "S", "K", "_", "B", "I", "T", " ", "i", "=", "2", " ", "b", "=", "1">>,
    <<"M", "A", "S", "K", "_", "B", "I", "T", " ", "b", "i", "t", "=", "2", " ", "b", "=", "1">>, <<"M", "A", "S", "K", "_", "B", "I", "T", " ", "i", "=", "2", " ", "v", "a", "l", "=", "1">>,
    <<"M", "A", "S", "K", "_", "B", "I", "T", " ", "v", "a", "l", "=", "1", " ", "b", "i", "t", "=", "2">>, <<"M", "A", "S", "K", "_", "B", "I", "T", " ", "b", "i", "t", "=", "2">>, <<"M", "A", "S", "K", "_", "B", "I", "T", " ", "b", "i", "t", "=", "x", " ", "v", "a", "l", "=", "1">>,
    <<"M", "A", "S", "K", "_", "B", "I", "T", " ", "b", "i", "t", "=", "2", "5", "8", " ", "v", "a", "l", "=", "1">>,
    <<"L", "O", "A", "D", " ", "1", "/", "2">>, <<"L", "O", "A", "D">>, <<" ", "L", "O", "A", "D", " ", " ", "3", ",", "4", ",", "5", " ">>,
    <<"S", "E", "L", "E", "C", "T", "_", "U", "N", "I", "V", "E", "R", "S", "E", " ", "u", "n", "i", "v", "e", "r", "s", "e", "=", "B", "O", "O", "L", "F", "U", "N", " ", "n", "=", "4">>, <<"S", "E", "L", "E", "C", "T", "_", "U", "N", "I", "V", "E", "R", "S", "E", " ", "B", "o", "o", "l", "F", "u", "n", " ", "n", "=", "4">>,
    <<"S", "E", "L", "E", "C", "T", "_", "U", "N", "I", "V", "E", "R", "S", "E", " ", "n", "=", "4">>,
    <<"F", "I", "L", "T", "E", "R", "_", "W", "E", "I", "G", "H", "T", " ", "m", "i", "n", "=", "1", " ", "m", "a", "x", "=", "3">>, <<"F", "I", "L", "T", "E", "R", "_", "W", "E", "I", "G", "H", "T", " ", "m", "i", "n", "=", "1">>,
    <<"T", "O", "P", "K", " ", "t", "a", "r", "g", "e", "t", "=", "0", "x", "B", "E", "E", "F", " ", "k", "=", "5">>, <<"T", "O", "P", "K", " ", "t", "a", "r", "g", "e", "t", "_", "e", "l", "e", "m", "=", "0", "x", "B", "E", "E", "F", " ", "k", "=", "5">>, <<"T", "O", "P", "K", " ", "k", "=", "5">>,
    <<"W", "I", "T", "N", "E", "S", "S", "_", "N", "E", "A", "R", "E", "S", "T", " ", "t", "a", "r", "g", "e", "t", "=", "1", "3", "/", "3", "7">>, <<"W", "I", "T", "N", "E", "S", "S", "_", "N", "E", "A", "R", "E", "S", "T", " ", "t", "a", "r", "g", "e", "t", "_", "e", "l", "e", "m", "=", "1", "3", "/", "3", "7", " ", "m", "e", "t", "r", "i", "c", "=", "L", "2">>,
    <<"W", "I", "T", "N", "E", "S", "S", "_", "N", "E", "A", "R", "E", "S", "T", " ", "m", "e", "t", "r", "i", "c", "=", "A", "B", "S", "_", "D", "I", "F", "F">>,
    <<"R", "E", "T", "U", "R", "N", "_", "S", "E", "T">>, <<"R", "E", "T", "U", "R", "N", "_", "S", "E", "T", " ", "m", "a", "x", "_", "i", "t", "e", "m", "s", "=", "1", "0", " ", "i", "n", "c", "l", "u", "d", "e", "_", "w", "i", "t", "n", "e", "s", "s", "=", "t", "r", "u", "e">>,
    <<"N", "O", "P">>, <<>> }

Calls ==
  { Call("build_boolfun", n) : n \in Arities }
    \cup { Call("parse_elem", t) : t \in ElemTexts }
    \cup { Call("merkle_root", l) : l \in LeafLists }
    \cup { Call("parse_op_to_semtrace", l) : l \in LineTexts }

InitP == InitLocals({ <<>> }) /\ call \in Calls /\ ret = None

\* the call returns r (or panics); the run's locals are not involved
Returns(r) ==
  /\ ret = None
  /\ ret' = r
  /\ UNCHANGED << ops, step_idx, pc, bf_vars, q_vars, set_digest, chain,
                  want_vars, out_lines, end_vars, tamper_vars, call >>

CallBuildBoolfun ==
  /\ call.fn = "build_boolfun"
  /\ Returns(IF build_boolfun_panics(call.arg) THEN Panicked
             ELSE Returned(build_boolfun(call.arg)))

CallParseElem ==
  /\ call.fn = "parse_elem"
  /\ Returns(Returned(parse_elem(call.arg)))

CallMerkleRoot ==
  /\ call.fn = "merkle_root"
  /\ Returns(Returned(merkle_root(call.arg)))

CallParseOp ==
  /\ call.fn = "parse_op_to_semtrace"
  /\ Returns(Returned(parse_op_to_semtrace(call.arg)))

NextP ==
  \/ CallBuildBoolfun
  \/ CallParseElem
  \/ CallMerkleRoot
  \/ CallParseOp

SpecP == InitP /\ [][NextP]_vars

TypeOK ==
  /\ pc \in {"run", "done", "error", "panic"}
  /\ step_idx \in 0..Len(ops)
  /\ Len(out_lines) = step_idx

\* the function RunOps and the actions describe the same loop
RunAgrees ==
  Locals = RunOps(SubSeq(ops, 1, IF pc = "error" /\ replay = None
                                 THEN step_idx + 1 ELSE step_idx))

(***************************************************************************)
(* Properties of a run (specification Spec).                               *)
(***************************************************************************)
Seed == sha256_bytes(EmptyBytes)

LastRec == out_lines[Len(out_lines)]

\* the loop has run every op of the list (no early return)
LoopEnded == pc = "run" /\ step_idx = Len(ops)

\* an op list of SET_BITs, optionally after one START_ELEM
SetBitRun(l) ==
  /\ \E k \in 1..Len(l) : l[k].op = "SET_BIT"
  /\ \A k \in 1..Len(l) : l[k].op = "SET_BIT" \/ (k = 1 /\ l[k].op = "START_ELEM")

\* C1: for an op list of SET_BITs (optionally after a START_ELEM) in which
\* every step leaves the candidate set non-empty, the run returns normally,
\* the verifier returns Ok(true) on the transcript written, and the chain the
\* verifier ends with equals the executor's chain.
C1_ChainAgreement ==
  ( /\ trace_file # None
    /\ SetBitRun(ops)
    /\ \A k \in 1..Len(out_lines) : out_lines[k].post.count > 0 )
  => /\ pc = "done"
     /\ replay[1].kind = "OkTrue"
     /\ replay[1].chain = chain
     /\ result[1].valid
     /\ result[1].chain_hash = hex32(replay[1].chain)

C1_Witness ==
  /\ trace_file # None
  /\ SetBitRun(ops)
  /\ Len(ops) = 3
  /\ ops[1].op = "START_ELEM"
  /\ \A k \in 1..Len(out_lines) : out_lines[k].post.count > 0
  /\ replay[1].kind = "OkTrue"

\* the chain value before record k of a transcript
PrevChain(lines, k) ==
  IF k = 1 THEN Seed ELSE lines[k - 1].step_digest.hex

\* C2: the chain starts at SHA256 of the empty byte string; the step_digest
\* of every emitted record is the hash of (pre = the previous record's
\* step_digest, or the seed for the first; op; args; post = the record's post
\* set digest); the chain is the step_digest of the last record.
C2_ChainStructure ==
  /\ out_lines = <<>> => chain = Seed
  /\ out_lines # <<>> => hex32(chain) = LastRec.step_digest
  /\ \A k \in 1..Len(out_lines) :
       out_lines[k].step_digest =
         hex32(sha256_bytes([pre |-> hex32(PrevChain(out_lines, k)),
                             op |-> out_lines[k].op,
                             args |-> out_lines[k].args,
                             post |-> out_lines[k].post.set_digest[1]]))

C2_Witness ==
  /\ Len(out_lines) = 3
  /\ out_lines[3].step_digest # out_lines[2].step_digest
  /\ hex32(chain) = out_lines[3].step_digest

\* a SET_BIT record whose post set is the empty set
EmptySetBit(rec) ==
  rec.op = "SET_BIT" /\ rec.post.set_digest = Some(EmptySetDigest)

\* C6: once a SET_BIT has left the candidate set empty no later op is
\* executed, the transcript has no record past that step, and the run
\* reports EMPTY_SET.
C6_AbortOnEmpty ==
  \A k \in 1..Len(out_lines) :
    EmptySetBit(out_lines[k])
      => /\ k = Len(out_lines)
         /\ step_idx = k
         /\ result # None => result[1].verdict = "EMPTY_SET"

Reverse(s) == [k \in 1..Len(s) |-> s[Len(s) + 1 - k]]

\* |t - f| < |t - g|, by cross-multiplication
Closer(f, g, t) ==
  Abs(t.num * f.den - t.den * f.num) * g.den
    < Abs(t.num * g.den - t.den * g.num) * f.den

\* |t - f| = |t - g|
Equidistant(f, g, t) ==
  Abs(t.num * f.den - t.den * f.num) * g.den
    = Abs(t.num * g.den - t.den * g.num) * f.den

\* f comes before g: nearer to t, or as near and first by (|num|, den,
\* canonical order)
Precedes(f, g, t) ==
  \/ Closer(f, g, t)
  \/ /\ Equidistant(f, g, t)
     /\ \/ AbsDenLt(f, g)
        \/ (Abs(f.num) = Abs(g.num) /\ f.den = g.den
            /\ canonical_cmp(f, g) = Less)

\* a WITNESS_NEAREST on the rational universe has just been recorded
AfterNearestQ ==
  /\ out_lines # <<>>
  /\ LastRec.op = "WITNESS_NEAREST"
  /\ ~is_ge
  /\ ~Contains(LastRec.args.target_elem, ",")

\* C8: after WITNESS_NEAREST on a non-empty rational candidate set the
\* witness is the element of the set that comes before every other one
\* under (exact distance, |num|, den, canonical order), and scanning the
\* set in another order gives the same witness.
C8_NearestUnique ==
  AfterNearestQ =>
    LET t == parse_frac(LastRec.args.target_elem)[1]
        w == witness[1]
    IN /\ w \in Range(state_set)
       /\ \A f \in Range(state_set) : f = w \/ Precedes(w, f, t)
       /\ witness_nearest(Reverse(state_set), t) = witness

Str_1_6 == << "1", "/", "6" >>

Str_0_1 == << "0", "/", "1" >>

\* C9 as stated: scenario S1 ends with count > 0, witness 1/6 and the
\* verifier returning Ok(true).
C9_S1_WitnessOneSixth ==
  (ops = demo_trace /\ pc # "run")
  => /\ pc = "done"
     /\ result[1].count > 0
     /\ result[1].witness = Some(Str_1_6)
     /\ result[1].valid

\* C9 amended: scenario S1 ends with count > 0, witness 0/1 (the element
\* with denominator <= 6 nearest to 7/200) and the verifier returning
\* Ok(true).
C9_S1_WitnessZero ==
  (ops = demo_trace /\ pc # "run")
  => /\ pc = "done"
     /\ result[1].count > 0
     /\ result[1].witness = Some(Str_0_1)
     /\ result[1].valid

C9_Witness ==
  /\ ops = demo_trace
  /\ pc = "done"
  /\ Len(out_lines) = 4
  /\ out_lines[3].post.witness # out_lines[2].post.witness

\* the constraint (mask, value) in force after record k
ConstraintAfter(k) ==
  IF k < Len(out_lines)
  THEN << out_lines[k + 1].pre.constraint_mask,
          out_lines[k + 1].pre.constraint_value >>
  ELSE << cst.mask, cst.value >>

\* C10: in every TOPK and WITNESS_NEAREST record post.set_digest equals
\* pre.set_digest and post.count equals pre.count, and the constraint
\* (mask, value) after the step is the one before it.
C10_SelectionFrame ==
  \A k \in 1..Len(out_lines) :
    out_lines[k].op \in {"TOPK", "WITNESS_NEAREST"}
      => /\ out_lines[k].post.set_digest = out_lines[k].pre.set_digest
         /\ out_lines[k].post.count = out_lines[k].pre.count
         /\ ConstraintAfter(k) = << out_lines[k].pre.constraint_mask,
                                    out_lines[k].pre.constraint_value >>

C10_Witness ==
  /\ Len(out_lines) = 3
  /\ out_lines[3].op = "TOPK"
  /\ out_lines[2].post.witness = None
  /\ out_lines[3].post.witness # None
  /\ out_lines[3].post.count > 0

(***************************************************************************)
(* Properties of the verifier on a changed copy (specification SpecT).     *)
(***************************************************************************)
\* the verifier accepted the transcript the run wrote, and has returned on
\* a copy changed in the way `kind`
Checked(kind) ==
  /\ verdict # None
  /\ tamper[1].kind = kind
  /\ replay[1].kind = "OkTrue"

\* C3: for an accepted transcript, with post.set_digest of record k
\* replaced by another value the verifier returns an error, not Ok(true),
\* and the error is the post.set_digest mismatch of record k.
C3_SetDigestTamperCaught ==
  Checked("post.set_digest")
  => /\ verdict[1].kind = "Err"
     /\ verdict[1].field = "post.set_digest"
     /\ verdict[1].at = tamper[1].k
     /\ verdict[1].step = File[tamper[1].k].step

C3_Witness ==
  /\ Checked("post.set_digest")
  /\ Len(File) = 3
  /\ tamper[1].k = 2
  /\ verdict[1].kind = "Err"

\* C4 as stated: for an accepted transcript, with post.count, post.witness
\* or step_digest of one record replaced by another value the verifier
\* does not return Ok(true).
C4_FieldTamperRejected ==
  (Checked("post.count") \/ Checked("post.witness") \/ Checked("step_digest"))
  => verdict[1].kind # "OkTrue"

\* C4 amended: the same for post.count and step_digest of any record, and
\* for post.witness of a record at which the replay holds a witness (the
\* record's own post.witness is not null).
C4_ReplayedFieldTamperRejected ==
  ( \/ Checked("post.count")
    \/ Checked("step_digest")
    \/ (Checked("post.witness") /\ File[tamper[1].k].post.witness # None) )
  => verdict[1].kind # "OkTrue"

C4_Witness ==
  /\ Checked("post.witness")
  /\ File[tamper[1].k].post.witness # None
  /\ vfile[1][tamper[1].k].post.witness # None
  /\ verdict[1].kind = "Err"
  /\ verdict[1].field = "post.witness"

\* C5: a strict prefix of an accepted transcript is not accepted.
C5_PrefixRejected ==
  Checked("prefix") => verdict[1].kind # "OkTrue"

KnownOps ==
  { "SELECT_UNIVERSE", "FILTER_WEIGHT", "TOPK", "START_ELEM", "SET_BIT",
    "WITNESS_NEAREST", "RETURN_SET" }

\* args the arm of the record's op cannot read
ArgsUnreadable(rec) ==
  LET a == rec.args
  IN \/ rec.op = "SELECT_UNIVERSE" /\ as_u64(a.n) = None
     \/ rec.op = "FILTER_WEIGHT" /\ (as_u64(a.min) = None \/ as_u64(a.max) = None)
     \/ rec.op = "TOPK" /\ (as_u64(a.k) = None \/ parse_elem(a.target_elem) = None)
     \/ rec.op = "START_ELEM"
        /\ (IF Contains(a.elem, ",") THEN parse_tri_elem(a.elem)
            ELSE parse_frac(a.elem)) = None
     \/ rec.op = "SET_BIT" /\ (as_u64(a.i) = None \/ as_u64(a.b) = None)
     \/ rec.op = "WITNESS_NEAREST"
        /\ parse_frac(a.target_elem) = None
        /\ parse_tri_elem(a.target_elem) = None

\* a record the verifier must not get past
Failing(rec) ==
  \/ rec.op \notin KnownOps
  \/ rec.op = "WITNESS_NEAREST" /\ rec.args.metric # "ABS_DIFF"
  \/ EmptySetBit(rec)
  \/ ArgsUnreadable(rec)

\* outcome r of the verifier on file f: Ok(true) only past the last record,
\* and with a failing record k the verifier returned at k or before,
\* not with Ok(true)
NeverPastFailure(f, r) ==
  /\ r.kind = "OkTrue" => r.at = Len(f) + 1
  /\ \A k \in 1..Len(f) :
       Failing(f[k]) => r.kind # "OkTrue" /\ r.at <= k

\* C7: the verifier returns Ok(true) only after replaying every record; a
\* record with an unknown op, a WITNESS_NEAREST with another metric than
\* ABS_DIFF, a SET_BIT that leaves the set empty, or unreadable args makes
\* it return at that record or before, never with Ok(true), whatever
\* records follow.
C7_NeverValidPastFailure ==
  /\ replay # None => NeverPastFailure(File, replay[1])
  /\ verdict # None => NeverPastFailure(vfile[1], verdict[1])

C7_Witness ==
  /\ Checked("op")
  /\ tamper[1].k < Len(vfile[1])
  /\ verdict[1].kind = "OkFalse"
  /\ verdict[1].at = tamper[1].k

\* record rec of a SET_BIT that left the candidate set as it was: the set
\* digest and the count after the op are those before it
UnchangedSetBit(rec) ==
  /\ rec.op = "SET_BIT"
  /\ rec.pre.set_digest = rec.post.set_digest
  /\ rec.pre.count = rec.post.count

\* C12: a SET_BIT that leaves the candidate set unchanged is dropped before
\* execution: no record of the transcript (and so no link of the chain) is of
\* such a SET_BIT.
C12_RedundantSetBitElided ==
  \A k \in 1..Len(out_lines) : ~UnchangedSetBit(out_lines[k])

\* the (op, args) pairs a chain value commits to, oldest first: each link is
\* the hash of its op, its args and the link before it
RECURSIVE ChainOps(_)
ChainOps(c) ==
  IF c = Seed THEN <<>>
  ELSE Append(ChainOps(c.sha256.pre.hex), [op |-> c.sha256.op, args |-> c.sha256.args])

NoDuplicates(s) == Cardinality(Range(s)) = Len(s)

\* C14: after every executed op the candidate set is a subset of the
\* selected universe (the Boolean functions of the live arity, the triangles
\* as the executor stores them, or the rationals), is in strictly ascending
\* canonical order, and holds no element twice.
C14_CandidateSetCanonical ==
  IF is_boolfun
  THEN /\ Range(boolfun_set) \subseteq Range(boolfun_all)
       /\ \A k \in 1..(Len(boolfun_set) - 1) :
            boolfun_canonical_cmp(boolfun_set[k], boolfun_set[k + 1]) = Less
       /\ NoDuplicates(boolfun_set)
  ELSE /\ Range(state_set) \subseteq
            (IF is_ge THEN { tri_project(t) : t \in Range(ge_state) } ELSE Range(qe))
       /\ \A k \in 1..(Len(state_set) - 1) :
            canonical_cmp(state_set[k], state_set[k + 1]) = Less
       /\ NoDuplicates(state_set)

\* the rationals of the universe whose signature matches constraint c
MatchingQE(c) == { f \in Range(qe) : matches(c, sig7(f)) }

\* the triangles of the universe whose signature matches constraint c
MatchingGE(c) == { t \in Range(ge_state) : matches(c, sig7_geom(t)) }

\* C15: the filter of a universe U by a constraint C is exactly the elements
\* x of U with sig7(x) & C.mask = C.value & C.mask, in canonical order and
\* without duplicates, and after any SET_BIT the candidate set is this filter
\* of the full universe under the accumulated constraint: for the rationals
\* the matching elements in ascending canonical order; for the triangles one
\* entry per matching triangle (stored as a/c), in canonical order, none
\* twice.
C15_SetBitIsFilter ==
  (out_lines # <<>> /\ LastRec.op = "SET_BIT") =>
    IF is_ge
    THEN /\ Range(state_set) = { tri_project(t) : t \in MatchingGE(cst) }
         /\ Len(state_set) = Cardinality(MatchingGE(cst))
         /\ IsSortedBy(state_set, canonical_cmp)
         /\ NoDuplicates(state_set)
    ELSE state_set = SortSet(MatchingQE(cst), canonical_cmp)

\* value & ~mask == 0
ValueWithinMask(c) == And8(c.value, 255 - c.mask) = 0

\* one step of the run keeps every bit of the mask, or is a SELECT_UNIVERSE or
\* START_ELEM that was executed and left the constraint (mask 0, value 0)
MaskStep ==
  \/ And8(cst'.mask, cst.mask) = cst.mask
  \/ /\ At("SELECT_UNIVERSE") \/ At("START_ELEM")
     /\ step_idx' = step_idx + 1
     /\ cst' = constraint_empty

\* C16: in every reachable state the constraint satisfies value & ~mask = 0,
\* and from one state to the next the mask only gains bits, except at a
\* SELECT_UNIVERSE or START_ELEM, which reset the constraint to (0, 0).
C16_ConstraintMonotone ==
  [](ValueWithinMask(cst)) /\ [][MaskStep]_vars

C16_Witness ==
  /\ LoopEnded
  /\ ops = << SetBit(2, 1), SetBit(4, 1), StartElem(Elem_1_2) >>
  /\ out_lines[2].pre.constraint_mask = 4
  /\ out_lines[3].pre.constraint_mask = 20
  /\ out_lines[3].pre.constraint_value = 20
  /\ cst = constraint_empty

(***************************************************************************)
(* Properties of the runs over the universe ops (specification SpecU).     *)
(***************************************************************************)
ReturnSetOps == { o \in UniverseAlphabet : o.op = "RETURN_SET" }

\* the op lists that differ from l only in the parameters of RETURN_SET ops
ReturnSetVariants(l) ==
  { [ k \in 1..Len(l) |-> IF l[k].op = "RETURN_SET" THEN f[k] ELSE l[k] ] :
      f \in [1..Len(l) -> ReturnSetOps] }

\* the run of op list l ends with the candidate set, set digest, constraint
\* and witness of the present run
SameOutcome(l) ==
  LET r == RunOps(l)
  IN /\ r.pc # "error"
     /\ r.state_set = state_set /\ r.boolfun_set = boolfun_set
     /\ r.is_boolfun = is_boolfun /\ r.is_ge = is_ge
     /\ r.set_digest = set_digest /\ r.cst = cst
     /\ r.witness = witness /\ r.witness_bf = witness_bf

\* the parameters of RETURN_SET do not reach the candidate set, the set
\* digest, the constraint or the witness
ReturnSetKeepsState ==
  LoopEnded => \A l \in ReturnSetVariants(ops) : SameOutcome(l)

\* C11: RETURN_SET is presentation only: an op list that differs from the
\* one run only in the max_items / include_witness of its RETURN_SET ops ends
\* with the same candidate set, set digest, constraint and witness, and with
\* the same chain hash.
C11_ReturnSetPresentationOnly ==
  LoopEnded =>
    \A l \in ReturnSetVariants(ops) : SameOutcome(l) /\ RunOps(l).chain = chain

\* C11 as the code has it: the parameters of RETURN_SET do not reach the
\* candidate set, the set digest, the constraint or the witness, but they are
\* the args of the RETURN_SET record and enter its step digest: an op list
\* that differs from the one run in a RETURN_SET parameter ends with the same
\* set, digest, constraint and witness and with a different chain hash.
C11_ReturnSetOnlyInChain ==
  LoopEnded =>
    \A l \in ReturnSetVariants(ops) :
      SameOutcome(l) /\ (l # ops => RunOps(l).chain # chain)

C11_Witness ==
  /\ LoopEnded
  /\ ops = << StartElem(Elem_1_2), SetBit(2, 1), ReturnSet(5, FALSE) >>
  /\ want_max_items = 5 /\ ~want_include_witness
  /\ state_set # <<>>
  /\ RunOps(<< StartElem(Elem_1_2), SetBit(2, 1), ReturnSet(20, TRUE) >>).chain # chain

\* the names of the two universes other than the Boolean one
OtherUniverseNames ==
  { <<"R","A","T","I","O","N","A","L">>, <<"T","R","I","A","N","G","L","E">> }

\* the number of elements of the universe a SELECT_UNIVERSE names
UniverseSize(args) ==
  LET u == to_ascii_uppercase(args.universe)
  IN IF u \in BoolFunNames THEN 2 ^ (2 ^ args.n)
     ELSE IF u = <<"R","A","T","I","O","N","A","L">> THEN Len(qe)
     ELSE Len(ge_state)

\* the run returned Err at op k of the list
FatalAt(k) == pc = "error" /\ replay = None /\ step_idx = k - 1

\* C17: a SELECT_UNIVERSE that names Rational, Triangle or BoolFun is
\* executed from any prior state and leaves the constraint empty, the
\* candidate set the full universe named (post.count its size) and the
\* witness cleared (post.witness null); a SELECT_UNIVERSE with any other name
\* is a fatal error and is never recorded.
C17_SelectUniverseSwitches ==
  \A k \in 1..Len(ops) :
    ops[k].op = "SELECT_UNIVERSE" =>
      IF to_ascii_uppercase(ops[k].args.universe) \in BoolFunNames \cup OtherUniverseNames
      THEN /\ ~FatalAt(k)
           /\ k <= Len(out_lines) =>
                /\ out_lines[k].post.count = UniverseSize(ops[k].args)
                /\ out_lines[k].post.witness = None
                /\ ConstraintAfter(k) = << 0, 0 >>
      ELSE /\ k > Len(out_lines)
           /\ step_idx = k - 1 /\ pc # "run" => FatalAt(k)

\* the element a START_ELEM parses from its argument (None: not an element)
StartElemParsed(e) ==
  IF Contains(e, ",") THEN parse_tri_elem(e) ELSE parse_frac(e)

\* the full universe of an element: the triangles (as the executor stores
\* them) for "a,b,c", the rationals otherwise
UniverseOf(e) == IF Contains(e, ",") THEN ge_projected ELSE qe

\* C18: a START_ELEM with a valid element is executed from any prior state
\* and leaves the constraint empty and the candidate set the full universe of
\* the element: post.count is the size of that universe, post.set_digest its
\* Merkle root, and post.witness shows the parsed element.
C18_StartElemResets ==
  \A k \in 1..Len(ops) :
    (ops[k].op = "START_ELEM" /\ StartElemParsed(ops[k].args.elem) # None) =>
      /\ ~FatalAt(k)
      /\ k <= Len(out_lines) =>
           /\ out_lines[k].post.count = Len(UniverseOf(ops[k].args.elem))
           /\ out_lines[k].post.set_digest =
                Some(hex32(canonical_set_digest(UniverseOf(ops[k].args.elem))))
           /\ out_lines[k].post.witness =
                Some(frac_to_string(StartElemParsed(ops[k].args.elem)[1]))
           /\ ConstraintAfter(k) = << 0, 0 >>

\* before op k of list l the executor is in the Boolean universe: a
\* SELECT_UNIVERSE has been executed (it sets is_boolfun, which no later op
\* clears)
BoolFunSelected(l, k) == \E j \in 1..(k - 1) : l[j].op = "SELECT_UNIVERSE"

\* the arity of the last SELECT_UNIVERSE before op k
LiveArity(l, k) ==
  LET S == { j \in 1..(k - 1) : l[j].op = "SELECT_UNIVERSE" }
  IN l[CHOOSE j \in S : \A i \in S : i <= j].args.n

\* the Boolean functions of arity n with Hamming weight in lo..hi
WeightBand(n, lo, hi) ==
  { BoolFun(n, b) : b \in { x \in 0..(2 ^ (2 ^ n) - 1) : PopCount(x) \in lo..hi } }

\* the ops of scenario S3 at arity n
S3_Ops(n) ==
  << SelectUniverse(Name_BOOLFUN, n), FilterWeight(1, 2), TopK(Elem_bin_0110, 2) >>

\* the count FILTER_WEIGHT min=lo max=hi leaves on the universe of arity n
FilterCount(n, lo, hi) == Len(filter_weight(build_boolfun(n), lo, hi))

\* C19: in the Boolean universe FILTER_WEIGHT {min, max} leaves as candidate
\* set exactly the functions of the universe with min <= weight <= max, in
\* canonical order, clears the witness, and post.count is their number (696
\* for n=4, min=1, max=3); outside the Boolean universe it is a fatal error
\* and is not recorded.
C19_FilterWeight ==
  /\ (out_lines # <<>> /\ LastRec.op = "FILTER_WEIGHT") =>
       LET k == Len(out_lines)
           band == WeightBand(LiveArity(ops, k), LastRec.args.min, LastRec.args.max)
       IN /\ Range(boolfun_set) = band
          /\ \A j \in 1..(Len(boolfun_set) - 1) :
               boolfun_set[j].bits < boolfun_set[j + 1].bits
          /\ LastRec.post.count = Cardinality(band)
          /\ LastRec.post.set_digest =
               Some(hex32(canonical_set_digest_boolfun(boolfun_set)))
          /\ LastRec.post.witness = None
  /\ \A k \in 1..Len(ops) :
       ops[k].op = "FILTER_WEIGHT" =>
         IF BoolFunSelected(ops, k)
         THEN ~FatalAt(k)
         ELSE /\ k > Len(out_lines)
              /\ step_idx = k - 1 /\ pc # "run" => FatalAt(k)
  /\ (ops = S3_Ops(2) /\ pc = "run" /\ step_idx = 2) => FilterCount(4, 1, 3) = 696

C19_Witness ==
  /\ Len(out_lines) = 3
  /\ out_lines[1].op = "SELECT_UNIVERSE"
  /\ out_lines[2].op = "TOPK" /\ out_lines[2].post.witness # None
  /\ out_lines[3].op = "FILTER_WEIGHT" /\ out_lines[3].args.min = 1
  /\ out_lines[3].post.count = 10
  /\ out_lines[3].post.witness = None

C19_WitnessFatal ==
  /\ ops = << StartElem(Elem_1_2), FilterWeight(1, 2) >>
  /\ FatalAt(2)

\* f is a candidate of list set nearest to target t: no candidate has a
\* smaller Hamming distance, and none at the same distance has smaller bits
NearestBoolFun(f, set, t) ==
  \A g \in Range(set) :
    \/ hamming(f, t) < hamming(g, t)
    \/ hamming(f, t) = hamming(g, t) /\ f.bits <= g.bits

\* C20: a TOPK {target_elem, k} with k >= 1 on a non-empty candidate set of
\* the Boolean universe sets the witness to the candidate of minimum Hamming
\* distance to the target, the one of smallest packed bits among equals,
\* whatever k is; a TOPK whose target has another arity than the live one, or
\* a TOPK outside the Boolean universe, is a fatal error and is not recorded.
C20_TopK ==
  /\ (out_lines # <<>> /\ LastRec.op = "TOPK" /\ LastRec.args.k >= 1
        /\ boolfun_set # <<>>) =>
       \E f \in Range(boolfun_set) :
         /\ NearestBoolFun(f, boolfun_set, parse_elem(LastRec.args.target_elem)[1])
         /\ witness_bf = Some(f)
         /\ LastRec.post.witness = Some(boolfun_to_string(f))
  /\ \A k \in 1..Len(ops) :
       (ops[k].op = "TOPK" /\ parse_elem(ops[k].args.target_elem) # None) =>
         IF /\ BoolFunSelected(ops, k)
            /\ parse_elem(ops[k].args.target_elem)[1].n = LiveArity(ops, k)
         THEN ~FatalAt(k)
         ELSE /\ k > Len(out_lines)
              /\ step_idx = k - 1 /\ pc # "run" => FatalAt(k)

C20_Witness ==
  /\ LoopEnded
  /\ ops = << SelectUniverse(Name_BOOLFUN, 2), FilterWeight(3, 4),
              TopK(Elem_bin_0110, 2) >>
  /\ witness_bf = Some(BoolFun(2, 7))
  /\ hamming(BoolFun(2, 14), BoolFun(2, 6)) = hamming(BoolFun(2, 7), BoolFun(2, 6))
  /\ BoolFun(2, 14) \in Range(boolfun_set)
  /\ RunOps(<< SelectUniverse(Name_BOOLFUN, 2), FilterWeight(3, 4),
               TopK(Elem_bin_0110, 1) >>).witness_bf = witness_bf

C20_WitnessFatal ==
  /\ ops = << SelectUniverse(Name_BOOLFUN, 2), TopK(Elem_bin_01, 1) >>
  /\ FatalAt(2)

(***************************************************************************)
(* Properties of a run, continued (specification Spec).                    *)
(***************************************************************************)
\* the bounds build_qe is written with, and the size its test certifies
CertifiedBound == 200

CertifiedSize == 48927

\* the number of (num, den) pairs build_qe's BTreeSet holds for the box
\* -n..n by 1..d
QeSize(n, d) ==
  Cardinality({ new_reduced(num, den) : num \in (-n)..n, den \in 1..d })

Coprime(a, b) == ~\E d \in 2..b : a % d = 0 /\ b % d = 0

\* the rational universe is what a rational START_ELEM leaves
AtRationalUniverse ==
  /\ pc = "run" /\ out_lines # <<>>
  /\ LastRec.op = "START_ELEM" /\ ~is_ge

\* C21: the rational universe (the candidate set a rational START_ELEM
\* leaves) holds only fractions in lowest terms with positive denominator,
\* holds no (num, den) twice, is strictly ascending in canonical order and
\* ends with QNumMax/1; it has one element for 0 and two for every coprime
\* pair of the box, and for the box -200..200 by 1..200 that is 48,927.
C21_RationalUniverse ==
  AtRationalUniverse =>
    /\ \A k \in 1..Len(state_set) :
         state_set[k].den > 0 /\ Coprime(Abs(state_set[k].num), state_set[k].den)
    /\ NoDuplicates(state_set)
    /\ \A k \in 1..(Len(state_set) - 1) :
         canonical_cmp(state_set[k], state_set[k + 1]) = Less
    /\ state_set[Len(state_set)] = Frac(QNumMax, 1)
    /\ Len(state_set) =
         1 + 2 * Cardinality({ pq \in (1..QNumMax) \X (1..QDenMax) :
                                 Coprime(pq[1], pq[2]) })
    /\ (ops = << StartElem(Elem_1_2) >>
          => QeSize(CertifiedBound, CertifiedBound) = CertifiedSize)

C21_Witness ==
  /\ AtRationalUniverse
  /\ ops = << StartElem(Elem_1_2) >>
  /\ Len(state_set) > 1

\* the last record renders a witness
WitnessRendered ==
  /\ pc = "run" /\ out_lines # <<>>
  /\ LastRec.post.witness # None

\* C23: whenever a record renders a witness, parsing the rendered string
\* (parse_elem for a Boolean function, parse_frac for a rational or the a/c
\* projection of a triangle) yields the witness itself.
C23_WitnessRoundTrip ==
  WitnessRendered =>
    IF is_boolfun THEN parse_elem(LastRec.post.witness[1]) = witness_bf
    ELSE parse_frac(LastRec.post.witness[1]) = witness

\* the same for rationals only
C23_RoundTripRational ==
  (WitnessRendered /\ ~is_boolfun /\ ~is_ge)
    => parse_frac(LastRec.post.witness[1]) = witness

\* the same for the projections of triangles only
C23_RoundTripTriangle ==
  (WitnessRendered /\ ~is_boolfun /\ is_ge)
    => parse_frac(LastRec.post.witness[1]) = witness

(***************************************************************************)
(* Properties of the direct calls (specification SpecP).                   *)
(***************************************************************************)
\* the call of fn has returned or panicked
Called(fn) == call.fn = fn /\ ret # None

\* the universe build_boolfun(n) returned is the list of all tables of
\* arity n in unsigned order
FullUniverse(n, v) ==
  /\ Len(v) = 2 ^ (2 ^ n)
  /\ \A k \in 1..Len(v) : v[k] = BoolFun(n, k - 1)
  /\ \A k \in 1..(Len(v) - 1) :
       /\ boolfun_canonical_cmp(v[k], v[k + 1]) = Less
       /\ v[k].bits < v[k + 1].bits
  /\ v[1].bits = 0
  /\ (n = 4 => Len(v) = 65536 /\ v[Len(v)].bits = 65535)

\* C22: for every arity n with 2^n <= 64, build_boolfun(n) returns the
\* 2^(2^n) tables of arity n, one each, in canonical order, which is the
\* unsigned order of the packed bits; for n = 4 these are 65,536 elements,
\* from table 0 to table 65535.
C22_BoolFunUniverse ==
  (Called("build_boolfun") /\ 2 ^ call.arg <= 64)
    => (ret[1] = "ok" /\ FullUniverse(call.arg, ret[2]))

\* the same for the arities below 6
C22_BoolFunUniverseBelow6 ==
  (Called("build_boolfun") /\ call.arg < 6)
    => (ret[1] = "ok" /\ FullUniverse(call.arg, ret[2]))

\* the value of a text over '0' and '1' read most significant bit first
BinValue(b) ==
  LET place[k \in 0..Len(b)] ==
        IF k = 0 THEN 0 ELSE 2 * place[k - 1] + (IF b[k] = "1" THEN 1 ELSE 0)
  IN place[Len(b)]

OverBits(b) == \A k \in 1..Len(b) : b[k] \in {"0", "1"}

\* the lengths "bin:" admits: 2^n for n in 0..6
TableLengths == {1, 2, 4, 8, 16, 32, 64}

\* C24: "0x" followed by the four hex digits of v and "u16:" followed by
\* the decimal digits of v both parse to the arity-4 element with bits v;
\* "bin:" followed by a text of '0' and '1' of length 2^n parses to arity n
\* with the text read most significant bit first; a "bin:" text that is
\* empty, has another character or has a length that is no 2^n <= 64, and a
\* hex or decimal text with a character that is no digit, parse to None.
\* (A hex or decimal text of a value above 65535 fails no check: its low 16
\* bits are kept.)
C24_ParseElem ==
  Called("parse_elem") =>
    /\ \A v \in U16Values :
         call.arg \in { HexText(v), DecText(v) } => ret[2] = Some(BoolFun(4, v))
    /\ \A b \in BinBodies :
         call.arg = BinText(b) =>
           IF OverBits(b) /\ Len(b) \in TableLengths
           THEN ret[2] = Some(BoolFun(Log2(Len(b)), BinValue(b)))
           ELSE ret[2] = None
    /\ call.arg \in { <<"0", "x", "B", "E", "E", "G">>, <<"0", "x">>, <<"B", "E", "E", "F">>, <<"u", "1", "6", ":", "1", "2", "a">>, <<"u", "1", "6", ":">>,
                      <<"u", "1", "6", ":", "-", "1">>, <<"1", "/", "2">> } => ret[2] = None
    /\ call.arg \in { <<"0", "X", "b", "e", "e", "f">>, <<" ", "0", "x", "B", "E", "E", "F", " ">>, <<"0", "x", "1", "B", "E", "E", "F">> }
         => ret[2] = Some(BoolFun(4, 48879))
    /\ call.arg = <<"u", "1", "6", ":", "7", "0", "0", "0", "0">> => ret[2] = Some(BoolFun(4, 70000 % 65536))

C24_Witness ==
  /\ Called("parse_elem")
  /\ call.arg = BinText(<<"0", "1", "1">>)
  /\ ret[2] = None

C24_WitnessSameValue ==
  /\ Called("parse_elem")
  /\ call.arg = DecText(48879)
  /\ ret[2] = Some(BoolFun(4, 48879))

\* the height of the tree over n >= 1 leaves: the least h with 2^h >= n
TreeHeight(n) == CHOOSE h \in 0..n : 2 ^ h >= n /\ (h = 0 \/ 2 ^ (h - 1) < n)

RECURSIVE TreeRoot(_, _)
\* the root of the tree of height h over the leaves l read from the top:
\* the left child covers the first 2^(h-1) leaves, the right child the
\* others, and a node without a right sibling is its own sibling
TreeRoot(l, h) ==
  IF h = 0 THEN l[1]
  ELSE LET half == 2 ^ (h - 1)
           left == TreeRoot(SubSeq(l, 1, Min(half, Len(l))), h - 1)
       IN IF Len(l) > half
          THEN sha256_bytes(Concat64(left, TreeRoot(SubSeq(l, half + 1, Len(l)), h - 1)))
          ELSE sha256_bytes(Concat64(left, left))

\* C25: merkle_root of an empty list is the hash of the empty byte string,
\* of a single leaf the leaf itself, and otherwise the root of the binary
\* tree built bottom-up in which an odd last node is paired with itself and
\* a parent is the hash of left followed by right; every level of more than
\* one node is followed by a strictly shorter one, so the loop ends.
C25_MerkleRoot ==
  Called("merkle_root") =>
    LET l == call.arg
    IN /\ ret[1] = "ok"
       /\ Len(l) = 0 => ret[2] = sha256_bytes(EmptyBytes)
       /\ Len(l) = 1 => ret[2] = l[1]
       /\ Len(l) = 2 => ret[2] = sha256_bytes(Concat64(l[1], l[2]))
       /\ Len(l) = 3 =>
            ret[2] = sha256_bytes(Concat64(sha256_bytes(Concat64(l[1], l[2])),
                                           sha256_bytes(Concat64(l[3], l[3]))))
       /\ Len(l) >= 1 => ret[2] = TreeRoot(l, TreeHeight(Len(l)))
       /\ Len(l) > 1 =>
            /\ Len(MerkleLevel(l)) < Len(l)
            /\ Len(MerkleLevel(l)) >= 1

C25_Witness ==
  /\ Called("merkle_root")
  /\ Len(call.arg) = MaxLeaves
  /\ call.arg[MaxLeaves] # call.arg[1]

\* the spellings of the bit-set op with index 2 and value 1
SetBitSpellings ==
  { <<"S", "E", "T", "_", "B", "I", "T", " ", "i", "=", "2", " ", "b", "=", "1">>, <<"S", "E", "T", "_", "B", "I", "T", " ", "b", "i", "t", "=", "2", " ", "v", "a", "l", "=", "1">>,
    <<"M", "A", "S", "K", "_", "B", "I", "T", " ", "b", "i", "t", "=", "2", " ", "v", "a", "l", "=", "1">>, <<"M", "A", "S", "K", "_", "B", "I", "T", " ", "i", "=", "2", " ", "b", "=", "1">>,
    <<"M", "A", "S", "K", "_", "B", "I", "T", " ", "b", "i", "t", "=", "2", " ", "b", "=", "1">>, <<"M", "A", "S", "K", "_", "B", "I", "T", " ", "i", "=", "2", " ", "v", "a", "l", "=", "1">> }

\* C26: the line parser accepts the bit-set op under both names and both
\* key aliases, and every spelling gives the record SET_BIT {i: 2, b: 1}.
C26_SetBitSpellings ==
  (Called("parse_op_to_semtrace") /\ call.arg \in SetBitSpellings)
    => ret = Returned(Some(SetBit(2, 1)))

\* the one spelling the parser has a branch for
C26_MaskBitAccepted ==
  (Called("parse_op_to_semtrace") /\ call.arg = <<"M", "A", "S", "K", "_", "B", "I", "T", " ", "b", "i", "t", "=", "2", " ", "v", "a", "l", "=", "1">>)
    => ret = Returned(Some(SetBit(2, 1)))

\* every other spelling is rejected
C26_AliasesRejected ==
  (Called("parse_op_to_semtrace") /\ call.arg \in SetBitSpellings
     /\ call.arg # <<"M", "A", "S", "K", "_", "B", "I", "T", " ", "b", "i", "t", "=", "2", " ", "v", "a", "l", "=", "1">>)
    => ret = Returned(None)

C26_MaskBitReached ==
  Called("parse_op_to_semtrace") /\ call.arg = <<"M", "A", "S", "K", "_", "B", "I", "T", " ", "b", "i", "t", "=", "2", " ", "v", "a", "l", "=", "1">>

(***************************************************************************)
(* Properties of failing runs (specification SpecE).                       *)
(***************************************************************************)
\* the element text is not an element of the mode it is read in
InvalidElement(text, tri) ==
  IF tri THEN parse_tri_elem(text) = None ELSE parse_frac(text) = None

\* the loop is at an op that fails with one of the fatal errors: a line the
\* parser rejects, an unknown universe, FILTER_WEIGHT or TOPK outside
\* BoolFun, an invalid element, an arity mismatch, an unsupported metric
FatalCause ==
  /\ pc = "run" /\ step_idx < Len(ops)
  /\ \/ CurOp.op = ""
     \/ /\ CurOp.op = "SELECT_UNIVERSE"
        /\ to_ascii_uppercase(CurOp.args.universe) \notin BoolFunNames
     \/ CurOp.op \in { "FILTER_WEIGHT", "TOPK" } /\ ~is_boolfun
     \/ /\ CurOp.op = "TOPK"
        /\ \/ parse_elem(CurOp.args.target_elem) = None
           \/ parse_elem(CurOp.args.target_elem)[1].n # boolfun_n
     \/ /\ CurOp.op = "START_ELEM"
        /\ InvalidElement(CurOp.args.elem, Contains(CurOp.args.elem, ","))
     \/ /\ CurOp.op = "WITNESS_NEAREST"
        /\ \/ CurOp.args.metric # "ABS_DIFF"
           \/ InvalidElement(CurOp.args.target_elem,
                             is_ge \/ Contains(CurOp.args.target_elem, ","))

\* the run ended with an error of the loop (the verifier was never called)
FailedInLoop == pc = "error" /\ replay = None

\* the step at a fatal op ends the run with an error and writes nothing, and
\* no step follows an error
FailFast ==
  /\ FatalCause =>
       /\ pc' = "error"
       /\ out_lines' = out_lines
       /\ step_idx' = step_idx
       /\ trace_file' = None /\ result' = None /\ replay' = None
  /\ pc # "error"

\* C28: an op that fails with a fatal error ends the run with an error; the
\* records already made are those of the steps before it, no record is made
\* for the failing step or a later one, no trace file and no result are
\* written.
C28_FailFast ==
  /\ [](FailedInLoop =>
          /\ step_idx < Len(ops)
          /\ Len(out_lines) = step_idx
          /\ \A k \in 1..Len(out_lines) : out_lines[k].step = k - 1
          /\ trace_file = None
          /\ result = None)
  /\ [][FailFast]_vars

\* a run that failed at its second op with a third op behind it
C28_Witness ==
  /\ FailedInLoop
  /\ step_idx = 1 /\ Len(ops) = 3
  /\ ops[2].op = "TOPK" /\ is_boolfun

(***************************************************************************)
(* Properties of a run, continued (specification Spec).                    *)
(***************************************************************************)
\* the candidate set of locals st is empty
SetEmptyIn(st) ==
  IF st.is_boolfun THEN st.boolfun_set = <<>> ELSE st.state_set = <<>>

CountIn(st) == IF st.is_boolfun THEN Len(st.boolfun_set) ELSE Len(st.state_set)

WitnessIn(st) ==
  IF st.is_boolfun THEN MapBoolFunStr(st.witness_bf) ELSE MapFracStr(st.witness)

\* record k of the run over op list l, from the list alone: its pre part is
\* read from the locals the first k - 1 ops leave, its post part and its
\* step digest from the locals the first k ops leave
RecordOf(l, k) ==
  LET before == RunOps(SubSeq(l, 1, k - 1))
      after == RunOps(SubSeq(l, 1, k))
  IN [ step |-> k - 1, op |-> l[k].op, args |-> l[k].args,
       pre |-> [ set_digest |-> IF k = 1 /\ SetEmptyIn(before) THEN None
                                ELSE Some(hex32(before.set_digest)),
                 count |-> CountIn(before),
                 constraint_mask |-> before.cst.mask,
                 constraint_value |-> before.cst.value ],
       post |-> [ set_digest |-> Some(hex32(after.set_digest)),
                  count |-> CountIn(after),
                  witness |-> WitnessIn(after) ],
       step_digest |-> hex32(after.chain) ]

\* C27: what a run produces is a function of its op list: in every run over
\* the same list the records made so far are the same records (op, args,
\* pre, post, step_digest), and so are the final chain hash, count and
\* witness.
C27_Deterministic ==
  /\ \A k \in 1..Len(out_lines) : out_lines[k] = RecordOf(ops, k)
  /\ Len(out_lines) = RunOps(SubSeq(ops, 1, step_idx)).records
  /\ result # None =>
       /\ result[1].chain_hash = hex32(RunOps(ops).chain)
       /\ result[1].count = CountIn(RunOps(ops))
       /\ result[1].witness = WitnessIn(RunOps(ops))

\* a finished run of three records that ends in the Boolean universe with a
\* witness
C27_Witness ==
  /\ result # None
  /\ Len(out_lines) = 3
  /\ is_boolfun /\ result[1].witness # None

\* the right triangles with sides within a bound: a <= b <= c <= bound,
\* a + b > c, a^2 + b^2 = c^2
RightTriangles(bound) ==
  { t \in [a : 1..bound, b : 1..bound, c : 1..bound] :
      /\ t.a <= t.b /\ t.b <= t.c
      /\ t.a + t.b > t.c
      /\ t.a * t.a + t.b * t.b = t.c * t.c }

\* the bound of the certified triangle universe
GeBound == 20

\* filter_ge(build_ge(max_side), c) with the filter applied to the triples
\* before build_ge sorts them (geom::canonical_cmp is total, so the sorted
\* list of the kept triangles is the same list)
filter_build_ge(max_side, c) ==
  SortFrac(MapProject(
    SortSet({ t \in [a : 1..max_side, b : 1..max_side, c : 1..max_side] :
                /\ t.a <= t.b /\ t.b <= t.c
                /\ tri_new(t.a, t.b, t.c) # None
                /\ matches(c, sig7_geom(t)) },
            geom_canonical_cmp)))

\* the list holds the a/c projections of the triangles of T, one entry each
ProjectionsOf(set, T) ==
  /\ Len(set) = Cardinality(T)
  /\ \A t \in T : \E k \in 1..Len(set) : set[k] = Frac(t.a, t.c)
  /\ \A k \in 1..Len(set) : \E t \in T : set[k] = Frac(t.a, t.c)

\* no element of the list is nearer to the target than w
NearestIn(set, w, target) ==
  /\ \E k \in 1..Len(set) : set[k] = w
  /\ \A k \in 1..Len(set) :
       Abs(w.num * target.den - target.num * w.den) * set[k].den
         <= Abs(set[k].num * target.den - target.num * set[k].den) * w.den

S4Ops ==
  << StartElem(Elem_3_4_5), SetBit(4, 1), WitnessNearest(Elem_3_4_5, "ABS_DIFF") >>

\* the run is that of scenario S4, k ops done
AtS4(k) ==
  /\ pc = "run" /\ step_idx = k /\ Len(ops) >= k
  /\ SubSeq(ops, 1, k) = SubSeq(S4Ops, 1, k)

\* C29: after START_ELEM 3,4,5 and SET_BIT i=4 b=1 the candidate set is the
\* set of the right triangles within the bound (as a/c projections), and
\* post.count is their number; WITNESS_NEAREST with target 3,4,5 then gives
\* the element of the set nearest 3/5, rendered "3/5".  The same for the
\* universe of bound 20, which has six right triangles.
C29_ScenarioS4 ==
  /\ AtS4(2) =>
       /\ ProjectionsOf(state_set, RightTriangles(TriMaxSide))
       /\ LastRec.post.count = Cardinality(RightTriangles(TriMaxSide))
  /\ AtS4(3) =>
       /\ witness # None
       /\ NearestIn(state_set, witness[1], Frac(3, 5))
       /\ LastRec.post.witness = Some(<<"3", "/", "5">>)
  /\ (ops = S4Ops /\ AtS4(3)) =>
       LET set20 == filter_build_ge(GeBound, cst)
           w20 == witness_nearest(set20, parse_tri_elem(Elem_3_4_5)[1])
       IN /\ ProjectionsOf(set20, RightTriangles(GeBound))
          /\ Len(set20) = 6
          /\ NearestIn(set20, w20[1], Frac(3, 5))
          /\ frac_to_string(w20[1]) = <<"3", "/", "5">>

C29_Witness ==
  /\ ops = S4Ops /\ AtS4(3)
  /\ Len(state_set) >= 1
  /\ Len(filter_build_ge(GeBound, cst)) > Len(state_set)

\* the ops among the first k of the run that count for the constraint: the
\* SET_BIT ops after the last START_ELEM or SELECT_UNIVERSE
BitsSince(k) ==
  LET resets == { j \in 1..k : ops[j].op \in { "START_ELEM", "SELECT_UNIVERSE" } }
      from == IF resets = {} THEN 1
              ELSE 1 + CHOOSE j \in resets : \A h \in resets : h <= j
  IN { j \in from..k : ops[j].op = "SET_BIT" }

\* the constraint accumulated by the first k ops: the mask has the bits set
\* since the last reset, the value has for each of them the value given last
Accumulated(k) ==
  LET js == BitsSince(k)
      is == { ops[j].args.i : j \in js }
      last(i) == CHOOSE j \in js : ops[j].args.i = i
                   /\ \A h \in js : ops[h].args.i = i => h <= j
      sum(f(_)) == LET RECURSIVE S(_)
                       S(T) == IF T = {} THEN 0
                               ELSE LET i == CHOOSE i \in T : TRUE
                                    IN f(i) + S(T \ {i})
                   IN S(is)
      bit(i) == 2 ^ i
      val(i) == ops[last(i)].args.b * 2 ^ i
  IN << sum(bit), sum(val) >>

\* C30: the records carry the step indices 0, 1, 2, ...; the pre set digest
\* is null in the record of step 0 made on an empty set and in no other
\* record; from step 1 on the pre snapshot is the state the step before
\* left: its post set digest, its post count, and the constraint accumulated
\* by the ops before the record.
C30_PreSnapshots ==
  \A k \in 1..Len(out_lines) :
    LET rec == out_lines[k]
    IN /\ rec.step = k - 1
       /\ (rec.pre.set_digest = None) <=> (k = 1 /\ rec.pre.count = 0)
       /\ << rec.pre.constraint_mask, rec.pre.constraint_value >> = Accumulated(k - 1)
       /\ k >= 2 =>
            /\ rec.pre.set_digest = out_lines[k - 1].post.set_digest
            /\ rec.pre.count = out_lines[k - 1].post.count

\* a record of a later step made on an empty set under a constraint of two
\* bits
C30_Witness ==
  /\ Len(out_lines) = 3
  /\ out_lines[3].pre.count = 0
  /\ out_lines[3].pre.set_digest # None
  /\ out_lines[3].pre.constraint_mask \notin { 0, 1, 2, 4, 8, 16, 32, 64 }

\* a transcript of three records
C30_ThreeRecords ==
  /\ Len(out_lines) = 3
  /\ out_lines[3].pre.count > 0
  /\ out_lines[3].pre.constraint_mask # 0

(***************************************************************************)
(* Properties of runs that mix the universes (specification SpecU).        *)
(***************************************************************************)
\* a record has just been made
RecordMade == pc = "run" /\ out_lines # <<>>

\* the number of elements of the set whose Merkle root is the set digest:
\* the digest is always computed from one of the two sets the executor
\* holds (state_set by START_ELEM and SET_BIT, boolfun_set by
\* SELECT_UNIVERSE and FILTER_WEIGHT)
DigestedCounts ==
  { n \in { Len(state_set), Len(boolfun_set) } :
      \/ n = Len(state_set) /\ canonical_set_digest(state_set) = set_digest
      \/ n = Len(boolfun_set)
           /\ canonical_set_digest_boolfun(boolfun_set) = set_digest }

\* C31: in every record post.count is the number of elements of the set
\* whose Merkle root is post.set_digest, also when SELECT_UNIVERSE BOOLFUN
\* is mixed with START_ELEM or SET_BIT; the empty set has the digest of the
\* empty byte string.
C31_CountMatchesDigest ==
  RecordMade =>
    /\ LastRec.post.set_digest = Some(hex32(set_digest))
    /\ DigestedCounts # {}
    /\ LastRec.post.count \in DigestedCounts
    /\ LastRec.post.count = 0 => set_digest = sha256_bytes(EmptyBytes)

\* the same for the runs without a SELECT_UNIVERSE before the record
C31_CountMatchesDigestUnmixed ==
  (RecordMade /\ ~BoolFunSelected(ops, step_idx + 1)) =>
    /\ LastRec.post.count \in DigestedCounts
    /\ LastRec.post.count = 0 => set_digest = sha256_bytes(EmptyBytes)

\* the same for the runs of SELECT_UNIVERSE, FILTER_WEIGHT and TOPK alone
C31_CountMatchesDigestBoolFun ==
  (RecordMade /\ \A k \in 1..step_idx :
       ops[k].op \in { "SELECT_UNIVERSE", "FILTER_WEIGHT", "TOPK", "RETURN_SET" }) =>
    /\ LastRec.post.count \in DigestedCounts
    /\ LastRec.post.count = 0 => set_digest = sha256_bytes(EmptyBytes)

\* the first op of the run of consecutive FILTER_WEIGHT ops that ends at op k
FilterRunStart(k) ==
  CHOOSE j \in 1..k :
    /\ \A h \in j..k : ops[h].op = "FILTER_WEIGHT"
    /\ (j = 1 \/ ops[j - 1].op # "FILTER_WEIGHT")

\* the functions of arity n whose weight lies in the range of every
\* FILTER_WEIGHT among the ops j..k
SurvivorsOf(n, j, k) ==
  { f \in WeightBand(n, 0, 2 ^ n) :
      \A h \in j..k : weight(f) \in ops[h].args.min..ops[h].args.max }

\* the last record is that of a FILTER_WEIGHT that follows a FILTER_WEIGHT
AfterSecondFilter ==
  /\ RecordMade /\ Len(out_lines) >= 2
  /\ LastRec.op = "FILTER_WEIGHT"
  /\ out_lines[Len(out_lines) - 1].op = "FILTER_WEIGHT"

\* C32: after two or more consecutive FILTER_WEIGHT ops the candidate set is
\* the set of the functions whose weight lies in all of their ranges, so
\* that no element an earlier FILTER_WEIGHT removed is in it.
C32_FiltersIntersect ==
  AfterSecondFilter =>
    LET k == Len(out_lines)
        survivors == SurvivorsOf(LiveArity(ops, k), FilterRunStart(k), k)
    IN /\ Range(boolfun_set) = survivors
       /\ LastRec.post.count = Cardinality(survivors)
       /\ LastRec.post.count <= LastRec.pre.count

\* what the executor does: the set after a FILTER_WEIGHT is the band of
\* that op alone, whatever the FILTER_WEIGHT before it left
C32_LastFilterAlone ==
  AfterSecondFilter =>
    Range(boolfun_set) =
      WeightBand(LiveArity(ops, Len(out_lines)), LastRec.args.min, LastRec.args.max)

\* a second FILTER_WEIGHT brought back elements the first had removed
C32_ElementsBack ==
  /\ AfterSecondFilter
  /\ LastRec.post.count > 0
  /\ LastRec.args # out_lines[Len(out_lines) - 1].args

(***************************************************************************)
(* Properties of runs of SET_BITs (specification SpecB).                   *)
(***************************************************************************)
\* the list l with the ops at k - 1 and k exchanged
Swapped(l, k) ==
  [ j \in 1..Len(l) |-> IF j = k - 1 THEN l[k] ELSE IF j = k THEN l[k - 1] ELSE l[j] ]

\* the list l without the op at k
Without(l, k) == SubSeq(l, 1, k - 1) \o SubSeq(l, k + 1, Len(l))

\* the filter of the live universe by a constraint
FilterLive(c) == IF is_ge THEN filter_ge(ge_state, c) ELSE filter_qe(qe, c)

\* the last two ops executed are SET_BITs
AfterTwoSetBits ==
  /\ pc = "run" /\ step_idx >= 2
  /\ ops[step_idx - 1].op = "SET_BIT" /\ ops[step_idx].op = "SET_BIT"

\* what C33 says of the state after the SET_BITs a and b (b the later one)
SetBitAlgebra(a, b) ==
  LET done == SubSeq(ops, 1, step_idx)
  IN /\ state_set = FilterLive(cst)
     /\ (a.args = b.args) =>
          state_set = RunOps(SubSeq(ops, 1, step_idx - 1)).state_set
     /\ (a.args.i # b.args.i) =>
          /\ RunOps(Swapped(done, step_idx)).pc = "run"
          /\ state_set = RunOps(Swapped(done, step_idx)).state_set
     /\ (a.args.i = b.args.i /\ a.args.b # b.args.b) =>
          /\ state_set = RunOps(Without(done, step_idx - 1)).state_set
          /\ BitOf(cst.value, b.args.i % 8) = b.args.b

\* C33: the set after a run of SET_BITs is the filter of the full universe
\* by the accumulated constraint: a repeated SET_BIT leaves the set as it
\* was, two SET_BITs on distinct bits give the same set in either order, and
\* a SET_BIT on a bit set before with the other value replaces the earlier
\* choice.
C33_SetBitAlgebra ==
  AfterTwoSetBits => SetBitAlgebra(ops[step_idx - 1], ops[step_idx])

\* the same for bit indices within the constraint byte
C33_SetBitAlgebraInByte ==
  (AfterTwoSetBits /\ ops[step_idx - 1].args.i < 8 /\ ops[step_idx].args.i < 8)
    => SetBitAlgebra(ops[step_idx - 1], ops[step_idx])

\* a SET_BIT with the other value brought back elements
C33_ReplacedReached ==
  /\ AfterTwoSetBits
  /\ ops[step_idx - 1].args.i = ops[step_idx].args.i
  /\ ops[step_idx - 1].args.b # ops[step_idx].args.b
  /\ Len(state_set) > LastRec.pre.count

\* the targets recorded by the most recent START_ELEM among the first k ops
\* (none when there is no START_ELEM)
LastStartTargets(k) ==
  LET S == { j \in 1..k : ops[j].op = "START_ELEM" }
  IN IF S = {} THEN {}
     ELSE { StartElemParsed(ops[CHOOSE j \in S : \A h \in S : h <= j].args.elem)[1] }

\* C34: a witness shown in a record is the target of the most recent
\* START_ELEM or an element of the candidate set at that step; a witness
\* chosen by WITNESS_NEAREST or TOPK is not shown once a later op has removed
\* it from the set.
C34_WitnessInSet ==
  (RecordMade /\ LastRec.post.witness # None) =>
    IF is_boolfun
    THEN witness_bf # None /\ witness_bf[1] \in Range(boolfun_set)
    ELSE /\ witness # None
         /\ LastRec.post.witness = Some(frac_to_string(witness[1]))
         /\ witness[1] \in LastStartTargets(step_idx) \cup Range(state_set)

\* the same for the record of the WITNESS_NEAREST itself
C34_WitnessInSetWhenChosen ==
  (RecordMade /\ LastRec.op = "WITNESS_NEAREST") =>
    /\ LastRec.post.witness # None
    /\ witness[1] \in Range(state_set)

\* a witness chosen by WITNESS_NEAREST is shown after a SET_BIT removed it
\* from a set that is not empty
C34_StaleWitness ==
  /\ RecordMade /\ step_idx >= 2
  /\ ops[step_idx - 1].op = "WITNESS_NEAREST" /\ LastRec.op = "SET_BIT"
  /\ LastRec.post.witness = out_lines[step_idx - 1].post.witness
  /\ witness[1] \notin Range(state_set)
  /\ state_set # <<>>

\* the run is in the rational universe at its op k: the most recent
\* START_ELEM before it carried a rational
InRationalUniverse(k) ==
  LET S == { j \in 1..(k - 1) : ops[j].op = "START_ELEM" }
  IN S # {} /\ ~Contains(ops[CHOOSE j \in S : \A h \in S : h <= j].args.elem, ",")

\* the last record is that of SET_BIT i=1 with value b in the rational
\* universe
AfterBitOne(b) ==
  /\ RecordMade /\ InRationalUniverse(step_idx)
  /\ LastRec.op = "SET_BIT" /\ LastRec.args.i = 1 /\ LastRec.args.b = b

\* C38: bit 1 of the signature of every rational of the universe is 1; in
\* the rational universe SET_BIT i=1 b=1 leaves the candidate set as it was
\* and SET_BIT i=1 b=0 leaves the empty set, whatever the constraint before.
C38_BitOneConstant ==
  /\ \A k \in 1..Len(qe) : BitOf(sig7(qe[k]), 1) = 1
  /\ AfterBitOne(1) =>
       /\ state_set = RunOps(SubSeq(ops, 1, step_idx - 1)).state_set
       /\ LastRec.post.count = LastRec.pre.count
       /\ LastRec.post.set_digest = LastRec.pre.set_digest
  /\ AfterBitOne(0) =>
       /\ state_set = <<>>
       /\ LastRec.post.count = 0

\* the same when the set before the SET_BIT is not empty
C38_BitOneConstantNonEmpty ==
  /\ \A k \in 1..Len(qe) : BitOf(sig7(qe[k]), 1) = 1
  /\ (AfterBitOne(1) /\ LastRec.pre.count > 0) =>
       /\ state_set = RunOps(SubSeq(ops, 1, step_idx - 1)).state_set
       /\ LastRec.post.count = LastRec.pre.count
       /\ LastRec.post.set_digest = LastRec.pre.set_digest
  /\ AfterBitOne(0) =>
       /\ state_set = <<>>
       /\ LastRec.post.count = 0

\* SET_BIT i=1 b=1 under a constraint of another bit, on a set that is
\* neither empty nor the universe
C38_BitOneReached ==
  /\ AfterBitOne(1)
  /\ LastRec.pre.count > 0 /\ LastRec.pre.count < Len(qe)

\* the constraint values shown in the pre snapshots
ConstraintsShown ==
  { out_lines[k].pre.constraint_mask : k \in 1..Len(out_lines) }
    \cup { out_lines[k].pre.constraint_value : k \in 1..Len(out_lines) }

\* C39: after any sequence of ops the constraint uses the 7 signature bits
\* only: the mask and the value shown in every pre snapshot are within
\* 0..127, whatever index a SET_BIT carries.
C39_SevenBits == ConstraintsShown \subseteq 0..127

\* what holds: the constraint stays within the byte
C39_WithinByte == ConstraintsShown \subseteq 0..255

\* a SET_BIT with an index beyond the byte ended the run with a panic
C39_PanicReached ==
  /\ pc = "panic"
  /\ CurOp.op = "SET_BIT" /\ CurOp.args.i >= 8

\* a SET_BIT with an index beyond the byte was executed on the bit i mod 8
C39_WrapReached ==
  /\ RecordMade
  /\ LastRec.op = "SET_BIT" /\ LastRec.args.i = 9
  /\ cst.mask = 2

(***************************************************************************)
(* Properties of the replay of a run (specifications Spec and SpecU).      *)
(***************************************************************************)
\* record k is that of a SET_BIT that left the candidate set empty (its post
\* set digest is that of the empty set)
EmptiedAt(k) ==
  /\ out_lines[k].op = "SET_BIT"
  /\ out_lines[k].post.set_digest = Some(EmptySetDigest)

\* the loop ran to its end and the transcript was replayed
Replayed == replay # None

\* C35: when the executor runs an op list to completion, the verifier's
\* replay of the transcript agrees with every record (set digest, count,
\* witness, chain: it reports no mismatch and no error), and it returns
\* VALID exactly when no SET_BIT left the candidate set empty.
C35_ReplayAgrees ==
  Replayed =>
    /\ replay[1].kind # "Err"
    /\ (replay[1].kind = "OkTrue") <=> ~(\E k \in 1..Len(out_lines) : EmptiedAt(k))

\* the same for runs without SELECT_UNIVERSE
C35_ReplayAgreesUnmixed ==
  (Replayed /\ \A k \in 1..Len(ops) : ops[k].op # "SELECT_UNIVERSE") =>
    /\ replay[1].kind # "Err"
    /\ (replay[1].kind = "OkTrue") <=> ~(\E k \in 1..Len(out_lines) : EmptiedAt(k))

\* the same for runs without START_ELEM, SET_BIT and WITNESS_NEAREST
C35_ReplayAgreesBoolFun ==
  (Replayed /\ \A k \in 1..Len(ops) :
       ops[k].op \notin { "START_ELEM", "SET_BIT", "WITNESS_NEAREST" }) =>
    replay[1].kind = "OkTrue"

RECURSIVE ReplayTrail(_, _, _)
\* the verifier's locals after each record it replayed and compared without
\* an early return
ReplayTrail(v, txt, k) ==
  IF k > Len(txt) THEN <<>>
  ELSE LET a == verify_apply(v, txt[k])
       IN IF a.ret # None THEN <<>>
          ELSE LET c == verify_check(a.v, txt[k])
               IN IF c.ret # None THEN <<>>
                  ELSE <<c.v>> \o ReplayTrail(c.v, txt, k + 1)

\* the witness the verifier's locals hold, as a record shows one
ReplayWitness(v) ==
  IF v.is_boolfun THEN MapBoolFunStr(v.witness_bf) ELSE MapFracStr(v.witness)

\* C35, the replay step by step: at every record the verifier replays to the
\* end it holds the digest, the size, the witness and the chain value the
\* record shows, and it replays every record before the first emptying SET_BIT
C35_ReplayTracks ==
  Replayed =>
    LET trail == ReplayTrail(VerifierInit, out_lines, 1)
    IN /\ \A k \in 1..Len(trail) :
            /\ Some(hex32(trail[k].set_digest)) = out_lines[k].post.set_digest
            /\ out_lines[k].post.count =
                 IF trail[k].is_boolfun THEN Len(trail[k].boolfun_set)
                 ELSE Len(trail[k].state_set)
            /\ ReplayWitness(trail[k]) = out_lines[k].post.witness
            /\ hex32(trail[k].chain) = out_lines[k].step_digest
       /\ \A k \in 1..Len(out_lines) :
            k > Len(trail) => \E j \in 1..k : EmptiedAt(j)

\* C35: the replay refines the run: it tracks every record and its verdict
\* is VALID exactly when no SET_BIT emptied the set
C35_Refinement == C35_ReplayAgrees /\ C35_ReplayTracks

\* a run whose SET_BIT emptied the set after records the verifier replayed:
\* the verifier returned Ok(false) at that record
C35_Witness ==
  /\ Replayed
  /\ replay[1].kind = "OkFalse"
  /\ \E k \in 2..Len(out_lines) : EmptiedAt(k) /\ replay[1].at = k

(***************************************************************************)
(* Properties of the verifier on two transcripts (specification SpecT).    *)
(***************************************************************************)
\* a StepPre unlike any a run writes: the fields deserialize (Option<String>,
\* usize, u8, u8) and nothing more
OtherPre ==
  [ set_digest |-> None, count |-> 7, constraint_mask |-> 255,
    constraint_value |-> 255 ]

\* the ways two transcripts differ in the claim: the step numbers, the pre
\* fields, or both
Relabellings == { << s, p >> : s \in {"same", "zero", "shifted"},
                               p \in {"same", "other"} } \ { << "same", "same" >> }

\* the transcript txt with its step numbers and pre fields changed as a says
Relabelled(txt, a) ==
  [ k \in 1..Len(txt) |->
      [ txt[k] EXCEPT
          !.step = IF a[1] = "zero" THEN 0
                   ELSE IF a[1] = "shifted" THEN @ + 1 ELSE @,
          !.pre = IF a[2] = "other" THEN OtherPre ELSE @ ] ]

\* what verify_trace_ndjson returned, without the text of its diagnostic:
\* Ok(true), Ok(false) or Err, the comparison that failed and the record
Verdict(r) == [kind |-> r.kind, field |-> r.field, at |-> r.at]

\* C36: the verifier returns the same verdict, at the same record and for
\* the same comparison, on a transcript and on the one that differs from it
\* in the step numbers or the pre fields of its records
C36_VerdictIgnoresStepAndPre ==
  verdict # None =>
    \A a \in Relabellings :
      Verdict(verify_trace_ndjson(Relabelled(vfile[1], a))) = Verdict(verdict[1])

\* a changed copy refused at its second record, and a relabelling of it
C36_Witness ==
  /\ verdict # None
  /\ verdict[1].kind = "Err"
  /\ verdict[1].at = 2
  /\ \A a \in Relabellings : Relabelled(vfile[1], a) # vfile[1]

\* a changed copy the verifier accepts, and a relabelling of it
C36_AcceptedReached ==
  /\ verdict # None
  /\ verdict[1].kind = "OkTrue"
  /\ Len(vfile[1]) >= 2

(***************************************************************************)
(* Direct calls of the rational arithmetic: canonical_cmp and cmp_value on *)
(* elements of the universe, distance_num_den and dist_lt on elements at   *)
(* the corners of the box build_qe enumerates (|num| <= 200, den <= 200).  *)
(* The i64 products of dist_lt pass TLC's integers there, so an i64 is     *)
(* held by its magnitude in five limbs of 15 bits, least significant       *)
(* first.                                                                  *)
(***************************************************************************)
\* the magnitude of n (|n| < 2^31) in limbs
wide(n) ==
  LET m == Abs(n)
  IN << m % 32768, (m \div 32768) % 32768, m \div 1073741824, 0, 0 >>

\* the magnitude of x * y for 0 <= x, y < 2^29, by long multiplication
mul_wide(x, y) ==
  LET x0 == x % 32768
      x1 == x \div 32768
      y0 == y % 32768
      y1 == y \div 32768
      t0 == x0 * y0
      t1 == x1 * y0 + x0 * y1 + (t0 \div 32768)
      t2 == x1 * y1 + (t1 \div 32768)
  IN << t0 % 32768, t1 % 32768, t2 % 32768, t2 \div 32768, 0 >>

\* m < n on magnitudes
wide_lt(m, n) ==
  \E k \in 1..5 : m[k] < n[k] /\ \A j \in (k + 1)..5 : m[j] = n[j]

\* the magnitude is below 2^31: the value is an i32
fits_i32(m) == m[5] = 0 /\ m[4] = 0 /\ m[3] < 2

\* the magnitude is below 2^63: the value is an i64 (`as i64`, exec.rs 91-94
\* and qe.rs 43-46)
fits_i64(m) == m[5] < 8

\* the products distance_num_den forms: a * d, b * c, their difference, b * d
distance_products(target, cand) ==
  { wide(target.num * cand.den), wide(target.den * cand.num),
    wide(target.num * cand.den - target.den * cand.num),
    wide(target.den * cand.den) }

\* the products cmp_value forms: a * d and c * b
cmp_value_products(x, y) == { wide(x.num * y.den), wide(y.num * x.den) }

\* the products dist_lt forms: x.0 * y.1 and y.0 * x.1
dist_lt_products(x, y) == { mul_wide(x[1], y[2]), mul_wide(y[1], x[2]) }

\* dist_lt on i64: the comparison of the two products
dist_lt_i64(x, y) == wide_lt(mul_wide(x[1], y[2]), mul_wide(y[1], x[2]))

\* the call returned what its products give once they wrapped round 2^64
Wrapped == << "wrapped" >>

\* what a call that forms the products ps can do: return `exact` when every
\* product is an i64; otherwise panic (a build with overflow checks) or go
\* on with the wrapped products (a build without them)
OnProducts(ps, exact) ==
  IF \A m \in ps : fits_i64(m) THEN { Returned(exact) }
  ELSE { Panicked, Wrapped }

\* the reduced fractions at the corners of the box of build_qe
CornerFracs ==
  { f \in { Frac(n, d) :
              n \in { -CertifiedBound, 1 - CertifiedBound, 0,
                      CertifiedBound - 1, CertifiedBound },
              d \in { 1, CertifiedBound - 1, CertifiedBound } } :
      new_reduced(f.num, f.den) = f }

\* the distances of corner candidates from corner targets
CornerDistances ==
  { distance_num_den(t, c) : t \in CornerFracs, c \in CornerFracs }

ArithmeticCalls ==
  { Call("canonical_cmp", << a, b >>) : a \in Range(qe), b \in Range(qe) }
    \cup { Call("cmp_value", << a, b >>) : a \in CornerFracs, b \in CornerFracs }
    \cup { Call("distance_num_den", << t, c >>) :
             t \in CornerFracs, c \in CornerFracs }
    \cup { Call("dist_lt", << x, y >>) :
             x \in CornerDistances, y \in CornerDistances }

InitQ == InitLocals({ <<>> }) /\ call \in ArithmeticCalls /\ ret = None

\* the call answered by the order on |numerator| and denominator alone
CallCanonicalCmp_by_abs ==
  /\ call.fn = "canonical_cmp"
  /\ Returns(Returned(canonical_cmp_by_abs(call.arg[1], call.arg[2])))

CallCanonicalCmp ==
  /\ call.fn = "canonical_cmp"
  /\ Returns(Returned(canonical_cmp(call.arg[1], call.arg[2])))

CallCmpValue ==
  /\ call.fn = "cmp_value"
  /\ \E r \in OnProducts(cmp_value_products(call.arg[1], call.arg[2]),
                         cmp_value(call.arg[1], call.arg[2])) :
       Returns(r)

CallDistanceNumDen ==
  /\ call.fn = "distance_num_den"
  /\ \E r \in OnProducts(distance_products(call.arg[1], call.arg[2]),
                         distance_num_den(call.arg[1], call.arg[2])) :
       Returns(r)

CallDistLt ==
  /\ call.fn = "dist_lt"
  /\ \E r \in OnProducts(dist_lt_products(call.arg[1], call.arg[2]),
                         dist_lt_i64(call.arg[1], call.arg[2])) :
       Returns(r)

NextQ ==
  \/ CallCanonicalCmp
  \/ CallCmpValue
  \/ CallDistanceNumDen
  \/ CallDistLt

SpecQ == InitQ /\ [][NextQ]_vars

(***************************************************************************)
(* Properties of the rational arithmetic (specification SpecQ).            *)
(***************************************************************************)
CmpCalled == call.fn = "canonical_cmp" /\ ret # None

\* a < b in the canonical order
CanonLess(a, b) == canonical_cmp(a, b) = Less

\* C37: on the universe the canonical order is a strict total order: of
\* a < b, a = b, b < a exactly one holds (the two calls mirror each other),
\* the order is transitive, and canonical_cmp returns Equal only for the
\* same (num, den)
C37_StrictTotalOrder ==
  CmpCalled =>
    LET a == call.arg[1]
        b == call.arg[2]
        o == ret[2]
    IN /\ ret[1] = "ok"
       /\ o \in { Less, Equal, Greater }
       /\ (o = Less) <=> (canonical_cmp(b, a) = Greater)
       /\ (o = Greater) <=> CanonLess(b, a)
       /\ (o = Equal) <=> (a.num = b.num /\ a.den = b.den)
       /\ ~(CanonLess(a, b) /\ CanonLess(b, a))
       /\ \A c \in Range(qe) :
            (o = Less /\ CanonLess(b, c)) => CanonLess(a, c)

\* a call on two elements of the same absolute value and denominator
C37_Witness ==
  /\ CmpCalled
  /\ call.arg[1].num = -call.arg[2].num
  /\ call.arg[1].num < 0
  /\ call.arg[1].den = call.arg[2].den
  /\ ret = Returned(Less)

\* every element of the universe is in lowest terms with a positive
\* denominator, so only the comparison of values ever decides
C37_ValueDecides ==
  CmpCalled => ret = Returned(cmp_value(call.arg[1], call.arg[2]))

ProductsOf(c) ==
  IF c.fn = "cmp_value" THEN cmp_value_products(c.arg[1], c.arg[2])
  ELSE IF c.fn = "distance_num_den" THEN distance_products(c.arg[1], c.arg[2])
  ELSE IF c.fn = "dist_lt" THEN dist_lt_products(c.arg[1], c.arg[2])
  ELSE {}

InBox(f) ==
  /\ Abs(f.num) <= CertifiedBound
  /\ f.den \in 1..CertifiedBound

\* C40: with target and candidate in the box, every product of
\* distance_num_den, of dist_lt on two such distances and of cmp_value is an
\* i64, and the call returns the exact result
C40_NoOverflow ==
  (ret # None /\ call.fn \in { "cmp_value", "distance_num_den", "dist_lt" }) =>
    /\ \A m \in ProductsOf(call) : fits_i64(m)
    /\ ret[1] = "ok"
    /\ call.fn = "dist_lt" =>
         ret[2] = dist_lt_i64(call.arg[1], call.arg[2])
    /\ call.fn = "distance_num_den" =>
         /\ InBox(call.arg[1]) /\ InBox(call.arg[2])
         /\ ret[2][1] <= 2 * CertifiedBound * CertifiedBound
         /\ ret[2][2] <= CertifiedBound * CertifiedBound

\* two distances whose cross products are beyond an i32: the widening to
\* i64 is what keeps the comparison exact
C40_Witness ==
  /\ call.fn = "dist_lt"
  /\ ret # None
  /\ \E m \in dist_lt_products(call.arg[1], call.arg[2]) : ~fits_i32(m)

\* where the products are within TLC's integers, the comparison on limbs
\* is the comparison dist_lt makes
C40_LimbsAgree ==
  (call.fn = "dist_lt" /\ ret # None
     /\ \A m \in dist_lt_products(call.arg[1], call.arg[2]) : fits_i32(m)) =>
    ret[2] = dist_lt(call.arg[1], call.arg[2])

====
